---- MODULE Spec2Model ----
(***************************************************************************)
(* AltFlex risk-scoring engine.                                            *)
(*                                                                         *)
(* Spec      : the API of src/app/main.py (startup, single and batch       *)
(*             transaction analysis, rule-only detection) over the         *)
(*             signature rule engine and the anomaly detector.             *)
(* SpecBehav : the BehavioralAnalyzer of src/models/behavioral_analyzer.py *)
(*             applied to bounded transaction histories.                   *)
(* SpecFeat  : the address-level features of src/models/                   *)
(*             feature_engineer.py on the same histories.                  *)
(* SpecModels: FeatureEngineer.process_transaction_data and the            *)
(*             AnomalyDetector of src/models/anomaly_detector.py.          *)
(* SpecAddr  : src/utils/address_validator.py and the request schemas.     *)
(* SpecRate  : the RateLimiter of src/app/security_middleware.py.          *)
(* SpecMw    : the middleware stack of setup_security_middleware.          *)
(* SpecAuth  : API-key authentication.                                     *)
(* SpecEth   : address_exists and verify_address of                        *)
(*             src/collectors/etherscan_collector.py.                      *)
(*                                                                         *)
(* Scores, confidences and probabilities are fixed-point numbers in        *)
(* thousandths (1000 = 1.0); value_eth, gas and gwei are whole numbers.    *)
(***************************************************************************)
EXTENDS Integers, Sequences, FiniteSets, TLC

VARIABLES
    phase,              \* "down" | "up": whether lifespan() has run
    bottom_level,       \* the level the detector reports for a zero score
    exploit_detector,   \* main.py global: "none" | "ready"
    feature_engineer,   \* main.py global: "none" | "ready"
    anomaly_detector,   \* main.py global: "none" | "untrained" | "trained"
    req,                \* the request being served (NoReq when none)
    req_env,            \* what its evaluation met: context given, rules failing
    resp,               \* the response it got
    ml_event,           \* what the ML section of that request did
    rule_results,       \* the RuleResult list of the last detect_all call
    bpc,                \* analyze_batch: "idle" | "running" | "done"
    batch,              \* analyze_batch: request.transactions
    results,            \* analyze_batch: results
    batch_events,       \* analyze_batch: what the ML section did, per item
    summary_counts,     \* analyze_batch: summary_counts
    batch_resp,         \* analyze_batch: the response (NoResp before the end)
    history,            \* BehavioralAnalyzer input: the transactions DataFrame
    out,                \* BehavioralAnalyzer: the last call and what it returned
    fe_feature_names,   \* FeatureEngineer.feature_names of the shared instance
    fe_pc,              \* per caller: where its process_transaction_data call is
    fe_input,           \* per caller: the frame it passed
    fe_local,           \* per caller: the local `features` of its call
    fe_ret,             \* per caller: what its last call returned
    ad_model,           \* AnomalyDetector.model: "none" | "unfitted" | "fitted"
    ad_is_trained,      \* AnomalyDetector.is_trained
    ad_out,             \* AnomalyDetector: the last call and its outcome
    av_in,              \* address validation: the value passed
    av_out,             \* address validation: the last call and its outcome
    rl_now,             \* RateLimiter: time.time(), in ticks
    rl_buckets,         \* RateLimiter.buckets
    rl_last_cleanup,    \* RateLimiter._last_cleanup
    rl_log,             \* RateLimiter: the is_allowed calls so far and their outcomes
    mw_user_middleware, \* app.user_middleware: the middleware classes added
    mw_served,          \* the HTTP requests served and the status each got
    mw_audit,           \* the REQUEST entries written by AuditLogger
    au_in,              \* API-key authentication: the configuration and request
    au_out,             \* API-key authentication: the last call and its outcome
    eth_answers,        \* EtherscanCollector: what the chain queries answer
    eth_pc,             \* EtherscanCollector: the running method and its position
    eth_queries,        \* EtherscanCollector: the queries the running call issued
    eth_locals,         \* EtherscanCollector: the locals of the running call
    eth_result          \* EtherscanCollector: what each method returned last

apiVars   == <<phase, bottom_level, exploit_detector, feature_engineer,
               anomaly_detector, req, req_env, resp, ml_event, rule_results, bpc, batch,
               results, batch_events, summary_counts, batch_resp>>
behavVars == <<history, out>>
modelVars == <<fe_feature_names, fe_pc, fe_input, fe_local, fe_ret,
               ad_model, ad_is_trained, ad_out>>
addrVars  == <<av_in, av_out>>
rateVars  == <<rl_now, rl_buckets, rl_last_cleanup, rl_log>>
mwVars    == <<mw_user_middleware, mw_served, mw_audit>>
authVars  == <<au_in, au_out>>
ethVars   == <<eth_answers, eth_pc, eth_queries, eth_locals, eth_result>>
extraVars == <<authVars, ethVars>>
vars      == <<apiVars, behavVars, modelVars, addrVars, rateVars, mwVars,
               extraVars>>

nonApiVars   == <<behavVars, modelVars, addrVars, rateVars, mwVars, extraVars>>
nonBehavVars == <<apiVars, modelVars, addrVars, rateVars, mwVars, extraVars>>
nonModelVars == <<apiVars, behavVars, addrVars, rateVars, mwVars, extraVars>>
nonAddrVars  == <<apiVars, behavVars, modelVars, rateVars, mwVars, extraVars>>
nonRateVars  == <<apiVars, behavVars, modelVars, addrVars, mwVars, extraVars>>
\* the middleware stack holds a rate limiter and leaves the rest alone
nonMwVars    == <<apiVars, behavVars, modelVars, addrVars, extraVars>>
nonAuthVars  == <<apiVars, behavVars, modelVars, addrVars, rateVars, mwVars,
                  ethVars>>
nonEthVars   == <<apiVars, behavVars, modelVars, addrVars, rateVars, mwVars,
                  authVars>>

Min(a, b) == IF a < b THEN a ELSE b
Max(a, b) == IF a > b THEN a ELSE b

RECURSIVE SeqSum(_)
SeqSum(s) == IF s = <<>> THEN 0 ELSE Head(s) + SeqSum(Tail(s))

(***************************************************************************)
(* Addresses.  An address is its hex digits and the letter case it is      *)
(* written in; str.lower() keeps the digits and forgets the case.          *)
(***************************************************************************)
Addr(id, upper) == [id |-> id, upper |-> upper]
Lower(a) == [a EXCEPT !.upper = FALSE]

AttackerLower == Addr("b66c", FALSE)   \* 0xb66cd966670d962c227b3eaba30a872dbfb995db
AttackerMixed == Addr("b66c", TRUE)    \* 0xb66cd966670d962C227B3EABA30a872DbFb995db
CleanAddr     == Addr("1234", FALSE)   \* 0x1234567890abcdef1234567890abcdef12345678

\* ExploitDetector.known_attacker_addresses: the registry, stored normalized
known_attacker_addresses == {AttackerLower}

(***************************************************************************)
(* SignatureRuleEngine (ExploitDetector.detect_all): six independent       *)
(* rules, each yielding one RuleResult.                                    *)
(***************************************************************************)
RuleIds == <<"known_attacker", "large_value", "abnormal_gas",
             "abnormal_gas_price", "flash_loan", "same_block_burst">>

Severities == {"LOW", "MEDIUM", "HIGH", "CRITICAL"}

SevRank(s) == CASE s = "LOW"      -> 1
                [] s = "MEDIUM"   -> 2
                [] s = "HIGH"     -> 3
                [] s = "CRITICAL" -> 4

LargeValueThreshold      == 100      \* ETH
HighGasThreshold         == 500000
HighGasPriceGwei         == 50
FlashLoanValueThreshold  == 10       \* ETH, the lower secondary threshold
SameBlockRepeatThreshold == 3
SuspicionThreshold       == 500      \* 0.5

NoContext == 0 - 1   \* the caller supplied no address-history context

RuleResult(id, trig, sev, conf) ==
    [rule_id |-> id, is_triggered |-> trig, severity |-> sev, confidence |-> conf]

\* a rule whose evaluation failed internally still reports, untriggered
FailedRule(id) == RuleResult(id, FALSE, "LOW", 0)

KnownAttackerRule(tx) ==
    RuleResult("known_attacker",
               Lower(tx.from_address) \in known_attacker_addresses
                 \/ Lower(tx.to_address) \in known_attacker_addresses,
               "CRITICAL", 1000)

LargeValueRule(tx) ==
    RuleResult("large_value",
               tx.value_eth > LargeValueThreshold,
               IF tx.value_eth >= 10 * LargeValueThreshold THEN "HIGH" ELSE "MEDIUM",
               Min(1000, (Max(tx.value_eth - LargeValueThreshold, 0) * 1000)
                           \div LargeValueThreshold))

AbnormalGasRule(tx) ==
    RuleResult("abnormal_gas",
               tx.gas_used > HighGasThreshold,
               "MEDIUM",
               Min(1000, (tx.gas_used * 500) \div HighGasThreshold))

AbnormalGasPriceRule(tx) ==
    RuleResult("abnormal_gas_price",
               tx.gas_price_gwei > HighGasPriceGwei,
               IF tx.gas_price_gwei > 2 * HighGasPriceGwei THEN "MEDIUM" ELSE "LOW",
               Min(1000, (tx.gas_price_gwei * 500) \div HighGasPriceGwei))

FlashLoanRule(tx) ==
    RuleResult("flash_loan",
               tx.is_flash_loan /\ tx.value_eth > FlashLoanValueThreshold,
               "HIGH", 600)

SameBlockBurstRule(ctx) ==
    RuleResult("same_block_burst",
               ctx # NoContext /\ ctx > SameBlockRepeatThreshold,
               IF ctx > 2 * SameBlockRepeatThreshold THEN "HIGH" ELSE "MEDIUM",
               IF ctx = NoContext THEN 0
               ELSE Min(1000, (ctx * 500) \div SameBlockRepeatThreshold))

\* the rules whose evaluation can fail: the one that needs optional context
FailableRules == {"same_block_burst"}

EvalRule(id, tx, ctx, failing) ==
    IF id \in failing THEN FailedRule(id)
    ELSE CASE id = "known_attacker"     -> KnownAttackerRule(tx)
           [] id = "large_value"        -> LargeValueRule(tx)
           [] id = "abnormal_gas"       -> AbnormalGasRule(tx)
           [] id = "abnormal_gas_price" -> AbnormalGasPriceRule(tx)
           [] id = "flash_loan"         -> FlashLoanRule(tx)
           [] id = "same_block_burst"   -> SameBlockBurstRule(ctx)

\* every registered rule is evaluated, in order, whatever the others returned
detect_all(tx, ctx, failing) ==
    [i \in 1..Len(RuleIds) |-> EvalRule(RuleIds[i], tx, ctx, failing)]

RECURSIVE Triggered(_)
\* [r for r in results if r.is_triggered]
Triggered(rs) ==
    IF rs = <<>> THEN <<>>
    ELSE IF Head(rs).is_triggered
         THEN <<Head(rs)>> \o Triggered(Tail(rs))
         ELSE Triggered(Tail(rs))

(***************************************************************************)
(* RiskFusionEngine (ExploitDetector.analyze).                             *)
(***************************************************************************)
RiskLevels == {"CRITICAL", "HIGH", "MEDIUM", "LOW", "MINIMAL", "SAFE"}

LevelRank(l) == CASE l = "SAFE"     -> 0
                  [] l = "MINIMAL"  -> 1
                  [] l = "LOW"      -> 2
                  [] l = "MEDIUM"   -> 3
                  [] l = "HIGH"     -> 4
                  [] l = "CRITICAL" -> 5

SeverityWeight(s) == CASE s = "LOW"      -> 200
                       [] s = "MEDIUM"   -> 400
                       [] s = "HIGH"     -> 700
                       [] s = "CRITICAL" -> 1000

\* the severity-weighted aggregate of the triggered rules, capped at 1.0
RiskScore(trig) ==
    Min(1000, SeqSum([i \in 1..Len(trig) |->
                 (SeverityWeight(trig[i].severity) * trig[i].confidence) \div 1000]))

\* the band of a score; `bottom` is the level the deployment reports for a
\* score of zero ("MINIMAL" or "SAFE")
RiskBand(score, bottom) ==
    IF score >= 800 THEN "CRITICAL"
    ELSE IF score >= 600 THEN "HIGH"
    ELSE IF score >= 400 THEN "MEDIUM"
    ELSE IF score >= 200 THEN "LOW"
    ELSE IF score > 0 THEN "MINIMAL"
    ELSE bottom

HigherLevel(a, b) == IF LevelRank(a) >= LevelRank(b) THEN a ELSE b

RECURSIVE SeverityFloor(_, _)
\* the highest severity among the triggered rules, as a risk level
SeverityFloor(trig, acc) ==
    IF trig = <<>> THEN acc
    ELSE SeverityFloor(Tail(trig), HigherLevel(acc, Head(trig).severity))

analyze(tx, ctx, failing, bottom) ==
    LET rs    == detect_all(tx, ctx, failing)
        trig  == Triggered(rs)
        score == RiskScore(trig)
    IN [risk_score        |-> score,
        risk_level        |-> SeverityFloor(trig, RiskBand(score, bottom)),
        is_suspicious     |-> score >= SuspicionThreshold
                                \/ \E i \in 1..Len(trig) :
                                       trig[i].severity \in {"HIGH", "CRITICAL"},
        triggered_rules   |-> trig,
        all_rules_checked |-> Len(rs)]

(***************************************************************************)
(* AnomalyDetector.detect on a one-row matrix.  The classifier is opaque:  *)
(* p is the malicious probability it returns for the row.                  *)
(***************************************************************************)
Probs == {100, 400, 600, 800, 950}

\* the risk levels with the bounds exclusive
_get_risk_level_ml_Strict(prob) ==
    IF prob > 900 THEN "CRITICAL"
    ELSE IF prob > 700 THEN "HIGH"
    ELSE IF prob > 500 THEN "MEDIUM"
    ELSE IF prob > 300 THEN "LOW"
    ELSE "MINIMAL"

\* anomaly_detector.py 170-181
_get_risk_level_ml(prob) ==
    IF prob >= 900 THEN "CRITICAL"
    ELSE IF prob >= 700 THEN "HIGH"
    ELSE IF prob >= 500 THEN "MEDIUM"
    ELSE IF prob >= 300 THEN "LOW"
    ELSE "MINIMAL"

DefaultThreshold == 500

detect(p, threshold) ==
    [kind         |-> "result",
     is_malicious |-> p >= threshold,
     confidence   |-> p,
     risk_level   |-> _get_risk_level_ml(p)]

MlNull  == [kind |-> "null"]
MlError == [kind |-> "error"]

(***************************************************************************)
(* src/app/main.py                                                         *)
(***************************************************************************)
NoReq  == [status |-> 0]
NoEnv  == [ctx |-> NoContext, failing |-> {}]
NoResp == [status |-> 0]
HttpError(code) == [status |-> code]

\* the requests a client can send (TransactionAnalysisRequest)
Requests ==
    [from_address   : {CleanAddr, AttackerLower, AttackerMixed},
     to_address     : {CleanAddr, AttackerMixed},
     value_eth      : {1, 50, 150, 5000},
     gas_used       : {100000, 2000000},
     gas_price_gwei : {25, 75, 150},
     is_flash_loan  : BOOLEAN]

\* lines 201-217: the ML section of analyze_transaction.  An untrained
\* detector holds an unfitted classifier, whose predict_proba raises.
MlSection(p, ml_raises) ==
    IF anomaly_detector = "none" \/ feature_engineer = "none"
    THEN [event |-> "not_run", ml_prediction |-> MlNull]
    ELSE IF anomaly_detector = "untrained" \/ ml_raises
    THEN [event |-> "raised", ml_prediction |-> MlError]
    ELSE [event |-> "returned", ml_prediction |-> detect(p, DefaultThreshold)]

\* the response with triggered_rules left out
Response_NoRules(forensics_result, ml_prediction) ==
    [status            |-> 200,
     risk_score        |-> forensics_result.risk_score,
     risk_level        |-> forensics_result.risk_level,
     is_suspicious     |-> forensics_result.is_suspicious,
     triggered_rules   |-> <<>>,
     all_rules_checked |-> forensics_result.all_rules_checked,
     ml_prediction     |-> ml_prediction]

\* the response with risk_level recomputed from the score's band alone
Response_LevelFromScore(forensics_result, ml_prediction) ==
    [status            |-> 200,
     risk_score        |-> forensics_result.risk_score,
     risk_level        |-> RiskBand(forensics_result.risk_score, bottom_level),
     is_suspicious     |-> forensics_result.is_suspicious,
     triggered_rules   |-> forensics_result.triggered_rules,
     all_rules_checked |-> forensics_result.all_rules_checked,
     ml_prediction     |-> ml_prediction]

\* the response with all_rules_checked counting the triggered rules
Response_CountsTriggered(forensics_result, ml_prediction) ==
    [status            |-> 200,
     risk_score        |-> forensics_result.risk_score,
     risk_level        |-> forensics_result.risk_level,
     is_suspicious     |-> forensics_result.is_suspicious,
     triggered_rules   |-> forensics_result.triggered_rules,
     all_rules_checked |-> Len(forensics_result.triggered_rules),
     ml_prediction     |-> ml_prediction]

\* the response with is_suspicious recomputed from the score alone
Response_SuspiciousFromScore(forensics_result, ml_prediction) ==
    [status            |-> 200,
     risk_score        |-> forensics_result.risk_score,
     risk_level        |-> forensics_result.risk_level,
     is_suspicious     |-> forensics_result.risk_score >= SuspicionThreshold,
     triggered_rules   |-> forensics_result.triggered_rules,
     all_rules_checked |-> forensics_result.all_rules_checked,
     ml_prediction     |-> ml_prediction]

\* the response with the ML confidence folded into risk_score
Response_MlInScore(forensics_result, ml_prediction) ==
    [status            |-> 200,
     risk_score        |-> IF ml_prediction.kind = "result"
                           THEN Max(forensics_result.risk_score,
                                    ml_prediction.confidence)
                           ELSE forensics_result.risk_score,
     risk_level        |-> forensics_result.risk_level,
     is_suspicious     |-> forensics_result.is_suspicious,
     triggered_rules   |-> forensics_result.triggered_rules,
     all_rules_checked |-> forensics_result.all_rules_checked,
     ml_prediction     |-> ml_prediction]

\* lines 219-232: the response built from the forensics result
TransactionAnalysisResponse(forensics_result, ml_prediction) ==
    [status            |-> 200,
     risk_score        |-> forensics_result.risk_score,
     risk_level        |-> forensics_result.risk_level,
     is_suspicious     |-> forensics_result.is_suspicious,
     triggered_rules   |-> forensics_result.triggered_rules,
     all_rules_checked |-> forensics_result.all_rules_checked,
     ml_prediction     |-> ml_prediction]

\* analyze_transaction without the except clause of lines 216-217
analyze_transaction_MlUncaught(request, failing, p, ml_raises) ==
    IF exploit_detector = "none" THEN HttpError(503)
    ELSE IF MlSection(p, ml_raises).event = "raised" THEN HttpError(500)
    ELSE [status            |-> 200,
          risk_score        |-> analyze(request, NoContext, failing, bottom_level).risk_score,
          risk_level        |-> analyze(request, NoContext, failing, bottom_level).risk_level,
          is_suspicious     |-> analyze(request, NoContext, failing, bottom_level).is_suspicious,
          triggered_rules   |-> analyze(request, NoContext, failing, bottom_level).triggered_rules,
          all_rules_checked |-> analyze(request, NoContext, failing, bottom_level).all_rules_checked,
          ml_prediction     |-> MlSection(p, ml_raises).ml_prediction]

\* lines 185-232; the request carries no address-history context
analyze_transaction(request, failing, p, ml_raises) ==
    IF exploit_detector = "none" THEN HttpError(503)
    ELSE TransactionAnalysisResponse(
             analyze(request, NoContext, failing, bottom_level),
             MlSection(p, ml_raises).ml_prediction)

\* no request is being served and no response is waiting to be sent
NoExchange ==
    /\ req = NoReq /\ resp = NoResp /\ ml_event = "none" /\ rule_results = <<>>
    /\ bpc = "idle"

\* lines 60-106: lifespan() sets the three globals
Lifespan ==
    /\ phase = "down"
    /\ \E ed_ok, fe_ok, ad_ok, sample_exists, both_classes, train_ok \in BOOLEAN :
         /\ exploit_detector' = IF ed_ok THEN "ready" ELSE "none"
         /\ feature_engineer' = IF fe_ok THEN "ready" ELSE "none"
         /\ anomaly_detector' =
              IF ~ad_ok THEN "none"
              ELSE IF ~sample_exists THEN "untrained"
              ELSE IF ~fe_ok THEN "none"          \* prepare_training_data on None
              ELSE IF ~both_classes THEN "untrained"
              ELSE IF train_ok THEN "trained" ELSE "none"
    /\ phase' = "up"
    /\ UNCHANGED <<bottom_level, req, req_env, resp, ml_event, rule_results, bpc,
                   batch, results, batch_events, summary_counts, batch_resp>>
    /\ UNCHANGED nonApiVars

\* lines 108-109: the process stops; the globals are set again at the next start
Shutdown ==
    /\ phase = "up"
    /\ NoExchange
    /\ phase' = "down"
    /\ UNCHANGED <<bottom_level, exploit_detector, feature_engineer,
                   anomaly_detector, req, req_env, resp, ml_event, rule_results,
                   bpc, batch, results, batch_events, summary_counts, batch_resp>>
    /\ UNCHANGED nonApiVars

EmptyCounts == [critical |-> 0, high |-> 0, medium |-> 0, low |-> 0,
                safe |-> 0, suspicious |-> 0]

ClearBatch ==
    /\ bpc' = "idle"
    /\ batch' = <<>>
    /\ results' = <<>>
    /\ batch_events' = <<>>
    /\ summary_counts' = EmptyCounts
    /\ batch_resp' = NoResp

\* POST /api/analyze
AnalyzeTransaction ==
    /\ phase = "up"
    /\ NoExchange
    /\ \E request \in Requests, failing \in SUBSET FailableRules,
          p \in Probs, ml_raises \in BOOLEAN :
         /\ req' = request
         /\ req_env' = [ctx |-> NoContext, failing |-> failing]
         /\ resp' = analyze_transaction(request, failing, p, ml_raises)
         /\ ml_event' = IF exploit_detector = "none" THEN "not_reached"
                        ELSE MlSection(p, ml_raises).event
    /\ rule_results' = <<>>
    /\ ClearBatch
    /\ UNCHANGED <<phase, bottom_level, exploit_detector, feature_engineer,
                   anomaly_detector>>
    /\ UNCHANGED nonApiVars

\* lines 375-399: POST /api/detect/rules
detect_with_rules(request, failing) ==
    IF exploit_detector = "none" THEN HttpError(503)
    ELSE LET rs == detect_all(request, NoContext, failing)
         IN [status        |-> 200,
             rules_checked |-> Len(rs),
             triggered     |-> Len(Triggered(rs)),
             results       |-> rs]

DetectWithRules ==
    /\ phase = "up"
    /\ NoExchange
    /\ \E request \in Requests, failing \in SUBSET FailableRules :
         /\ req' = request
         /\ req_env' = [ctx |-> NoContext, failing |-> failing]
         /\ resp' = detect_with_rules(request, failing)
         /\ rule_results' = IF exploit_detector = "none" THEN <<>>
                            ELSE detect_all(request, NoContext, failing)
    /\ ml_event' = "rules_only"
    /\ ClearBatch
    /\ UNCHANGED <<phase, bottom_level, exploit_detector, feature_engineer,
                   anomaly_detector>>
    /\ UNCHANGED nonApiVars

\* the same-block counts a caller of the library can supply as context
Contexts == {NoContext, 1, 5, 9}

\* ExploitDetector.detect_all called directly, with address-history context
DetectAll ==
    /\ phase = "up"
    /\ NoExchange
    /\ exploit_detector = "ready"
    /\ \E request \in Requests, ctx \in Contexts, failing \in SUBSET FailableRules :
         /\ req' = request
         /\ req_env' = [ctx |-> ctx, failing |-> failing]
         /\ rule_results' = detect_all(request, ctx, failing)
    /\ resp' = NoResp
    /\ ml_event' = "library"
    /\ ClearBatch
    /\ UNCHANGED <<phase, bottom_level, exploit_detector, feature_engineer,
                   anomaly_detector>>
    /\ UNCHANGED nonApiVars

(***************************************************************************)
(* analyze_batch, lines 235-279: one loop iteration per step; the handler  *)
(* never yields, so nothing else runs while it is running.                 *)
(***************************************************************************)
MaxBatch == 2

\* the clean transaction and the requests that differ from it in one field
BatchRequests ==
    {r \in Requests :
        /\ r.to_address = CleanAddr /\ r.gas_used = 100000 /\ ~r.is_flash_loan
        /\ r.from_address \in {CleanAddr, AttackerMixed}
        /\ r.gas_price_gwei \in {25, 75}
        /\ Cardinality({f \in {"from", "value", "price"} :
               \/ f = "from"  /\ r.from_address # CleanAddr
               \/ f = "value" /\ r.value_eth # 1
               \/ f = "price" /\ r.gas_price_gwei # 25}) <= 1}

Batches == UNION {[1..n -> BatchRequests] : n \in 1..MaxBatch}

\* the tiers with 'minimal' missing from the low branch
Tier_MinimalNotLow(level) ==
    IF level = "CRITICAL" THEN "critical"
    ELSE IF level = "HIGH" THEN "high"
    ELSE IF level = "MEDIUM" THEN "medium"
    ELSE IF level = "LOW" THEN "low"
    ELSE "safe"

\* lines 253-263: the tier a result is counted in
Tier(level) ==
    IF level = "CRITICAL" THEN "critical"
    ELSE IF level = "HIGH" THEN "high"
    ELSE IF level = "MEDIUM" THEN "medium"
    ELSE IF level \in {"LOW", "MINIMAL"} THEN "low"
    ELSE "safe"

\* lines 249-263: the counts after one result
UpdateCounts(counts, result) ==
    LET c1 == IF result.is_suspicious
              THEN [counts EXCEPT !.suspicious = @ + 1] ELSE counts
    IN [c1 EXCEPT ![Tier(result.risk_level)] = @ + 1]

\* lines 267-279
BatchAnalysisResponse(rs, counts) ==
    [status  |-> 200,
     summary |-> [total_analyzed    |-> Len(rs),
                  suspicious_count  |-> counts.suspicious,
                  critical_count    |-> counts.critical,
                  high_risk_count   |-> counts.high,
                  medium_risk_count |-> counts.medium,
                  low_risk_count    |-> counts.low,
                  safe_count        |-> counts.safe],
     results |-> rs]

\* lines 238-243: POST /api/analyze/batch arrives
BatchStart ==
    /\ phase = "up"
    /\ NoExchange
    /\ \E txs \in Batches : batch' = txs
    /\ bpc' = "running"
    /\ results' = <<>>
    /\ batch_events' = <<>>
    /\ summary_counts' = EmptyCounts
    /\ batch_resp' = NoResp
    /\ UNCHANGED <<req, req_env, resp, ml_event>>
    /\ rule_results' = <<>>
    /\ UNCHANGED <<phase, bottom_level, exploit_detector, feature_engineer,
                   anomaly_detector>>
    /\ UNCHANGED nonApiVars

\* lines 245-263: one iteration; an exception of analyze_transaction leaves
\* the handler, and the request ends with the error response
BatchStep ==
    /\ bpc = "running"
    /\ Len(results) < Len(batch)
    /\ \E failing \in SUBSET FailableRules, p \in Probs, ml_raises \in BOOLEAN :
         LET tx     == batch[Len(results) + 1]
             result == analyze_transaction(tx, failing, p, ml_raises)
         IN IF result.status # 200
            THEN /\ bpc' = "done"
                 /\ batch_resp' = result
                 /\ UNCHANGED <<results, batch_events, summary_counts>>
            ELSE /\ results' = Append(results, result)
                 /\ batch_events' = Append(batch_events, MlSection(p, ml_raises).event)
                 /\ summary_counts' = UpdateCounts(summary_counts, result)
                 /\ UNCHANGED <<bpc, batch_resp>>
    /\ UNCHANGED <<phase, bottom_level, exploit_detector, feature_engineer,
                   anomaly_detector, req, req_env, resp, ml_event, rule_results,
                   batch>>
    /\ UNCHANGED nonApiVars

\* lines 265-279: the loop is over
BatchFinish ==
    /\ bpc = "running"
    /\ Len(results) = Len(batch)
    /\ bpc' = "done"
    /\ batch_resp' = BatchAnalysisResponse(results, summary_counts)
    /\ UNCHANGED <<phase, bottom_level, exploit_detector, feature_engineer,
                   anomaly_detector, req, req_env, resp, ml_event, rule_results,
                   batch, results, batch_events, summary_counts>>
    /\ UNCHANGED nonApiVars

\* the handler has returned (lines 224-232, 267-279, 384-399): the response
\* is sent and the exchange is over
Deliver ==
    /\ phase = "up"
    /\ ~NoExchange
    /\ bpc # "running"
    /\ req' = NoReq
    /\ req_env' = NoEnv
    /\ resp' = NoResp
    /\ ml_event' = "none"
    /\ rule_results' = <<>>
    /\ ClearBatch
    /\ UNCHANGED <<phase, bottom_level, exploit_detector, feature_engineer,
                   anomaly_detector>>
    /\ UNCHANGED nonApiVars

EmptyHistory == <<>>
NoOut == [op |-> "none"]

\* the threads that call the shared FeatureEngineer
Callers == {1, 2}

\* feature_engineer.py 26-27 and anomaly_detector.py 50-63: the instances
\* after FeatureEngineer() and AnomalyDetector(), no model file given
ModelsConstructed ==
    /\ fe_feature_names = <<>>
    /\ fe_pc = [t \in Callers |-> "idle"]
    /\ fe_input = [t \in Callers |-> "none"]
    /\ fe_local = [t \in Callers |-> <<>>]
    /\ fe_ret = [t \in Callers |-> <<>>]
    /\ ad_model = "unfitted"
    /\ ad_is_trained = FALSE
    /\ ad_out = [op |-> "none"]

\* no address has been passed to the validators
NoAddressCall ==
    /\ av_in = [kind |-> "none"]
    /\ av_out = [op |-> "none"]

\* security_middleware.py 76-86: RateLimiter(), constructed at time 0
RateLimiterConstructed ==
    /\ rl_now = 0
    /\ rl_buckets = <<>>
    /\ rl_last_cleanup = 0
    /\ rl_log = <<>>

\* the application before setup_security_middleware: no request served
NoMiddleware ==
    /\ mw_user_middleware = <<>>
    /\ mw_served = <<>>
    /\ mw_audit = <<>>

\* no request has been authenticated
NoAuthCall ==
    /\ au_in = [kind |-> "none"]
    /\ au_out = [op |-> "none"]

\* what get_balance, get_transaction_count and is_contract return for the
\* address at hand: a value and an error message (None when it succeeded)
Answer(value, failed) == [value |-> value, error |-> failed]

NoLocals == [balance_wei |-> 0, tx_count |-> 0, is_contract |-> FALSE,
             errors |-> <<>>]

\* a method that has not returned for the address at hand
NotCalled == [done |-> FALSE]

NoResults == [address_exists |-> NotCalled, verify_address |-> NotCalled]

\* an EtherscanCollector that has not been asked about the address
CollectorIdle ==
    /\ eth_answers = [balance     |-> Answer(0, FALSE),
                      tx_count    |-> Answer(0, FALSE),
                      is_contract |-> Answer(FALSE, FALSE)]
    /\ eth_pc = "idle"
    /\ eth_queries = <<>>
    /\ eth_locals = NoLocals
    /\ eth_result = NoResults

\* the collaborators outside the specification at hand, untouched
NoExtras == NoAuthCall /\ CollectorIdle

\* the API before startup
ApiDown ==
    /\ phase = "down"
    /\ bottom_level = "SAFE"
    /\ exploit_detector = "none"
    /\ feature_engineer = "none"
    /\ anomaly_detector = "none"
    /\ req = NoReq
    /\ req_env = NoEnv
    /\ resp = NoResp
    /\ ml_event = "none"
    /\ rule_results = <<>>
    /\ bpc = "idle"
    /\ batch = <<>>
    /\ results = <<>>
    /\ batch_events = <<>>
    /\ summary_counts = EmptyCounts
    /\ batch_resp = NoResp

\* no history has been analysed
NoAnalysis ==
    /\ history = EmptyHistory
    /\ out = NoOut

Init ==
    /\ phase = "down"
    /\ bottom_level \in {"MINIMAL", "SAFE"}
    /\ exploit_detector = "none"
    /\ feature_engineer = "none"
    /\ anomaly_detector = "none"
    /\ req = NoReq
    /\ req_env = NoEnv
    /\ resp = NoResp
    /\ ml_event = "none"
    /\ rule_results = <<>>
    /\ bpc = "idle"
    /\ batch = <<>>
    /\ results = <<>>
    /\ batch_events = <<>>
    /\ summary_counts = EmptyCounts
    /\ batch_resp = NoResp
    /\ history = EmptyHistory
    /\ out = NoOut
    /\ ModelsConstructed
    /\ NoAddressCall
    /\ RateLimiterConstructed
    /\ NoMiddleware
    /\ NoExtras

Next ==
    \/ Lifespan
    \/ Shutdown
    \/ AnalyzeTransaction
    \/ DetectWithRules
    \/ DetectAll
    \/ BatchStart
    \/ BatchStep
    \/ BatchFinish
    \/ Deliver

Spec == Init /\ [][Next]_vars

(***************************************************************************)
(* src/models/behavioral_analyzer.py                                       *)
(*                                                                         *)
(* The transactions DataFrame is a bag of rows: history[k] is the number   *)
(* of rows equal to k = (from_address, to_address, timestamp).  Times are  *)
(* unix seconds.  A quotient is kept as numerator and denominator until    *)
(* the code rounds it.                                                     *)
(***************************************************************************)
BURST_TX_THRESHOLD      == 10
HIGH_VELOCITY_THRESHOLD == 50
MIN_FUNDING_DIVERSITY   == 3
CONCENTRATION_THRESHOLD == 800     \* 0.8

Hour == 3600
Day  == 86400

AddrA      == Addr("a", FALSE)
AddrAUpper == Addr("a", TRUE)
AddrB      == Addr("b", FALSE)
AddrC      == Addr("c", FALSE)
MixerAddr  == Addr("d90e", FALSE)  \* 0xd90e2f925da726b50c4ed8d0fb90ad053324f31b

known_mixer_addresses == {MixerAddr, Addr("7221", FALSE)}

\* datetime.now(): half past an hour
Now == 1000 * Hour + 1800

Times == {Now - 600,          \* in the running hour
          Now - 3000,         \* in the last 60 minutes, in the hour before
          Now - 5 * Hour,
          Now - 3 * Day,
          Now - 10 * Day,
          Now + 2 * Hour}     \* dated after now

HAddrs == {AddrA, AddrAUpper, AddrB, AddrC, MixerAddr}

\* the rows a history is made of: transfers between a and each other account,
\* between b and c, and with a written in upper case, all in the running
\* hour; and the transfer b -> a at every time
Kinds ==
    {k \in [from_address : HAddrs, to_address : HAddrs, timestamp : Times] :
        \/ /\ k.timestamp = Now - 600
           /\ {k.from_address, k.to_address} \in
                  {{AddrA, AddrB}, {AddrA, AddrC}, {AddrA, MixerAddr},
                   {AddrAUpper, AddrB}, {AddrB, AddrC}}
        \/ (k.from_address = AddrB /\ k.to_address = AddrA)}

MaxRows   == 3     \* distinct rows of a history
MaxCopies == 16    \* copies of the one row that may repeat

NoRows == [k \in Kinds |-> 0]

\* histories of at most MaxRows distinct rows
SmallHistories ==
    {[k \in Kinds |-> IF k \in S THEN 1 ELSE 0] :
        S \in {T \in SUBSET Kinds : Cardinality(T) <= MaxRows}}

\* histories of one row repeated, with at most one other row
BulkHistories ==
    {[k \in Kinds |-> IF k = b THEN n ELSE IF k \in S THEN 1 ELSE 0] :
        b \in Kinds, n \in 2..MaxCopies,
        S \in {T \in SUBSET Kinds : Cardinality(T) <= 1}}

\* one account funded many times by b and a few times by c, around the
\* concentration threshold of four fifths
SharedFunding == {<<4, 1>>, <<5, 1>>, <<320, 80>>, <<321, 80>>}

FundedHistories ==
    {[k \in Kinds |->
        IF k = [from_address |-> AddrB, to_address |-> AddrA,
                timestamp |-> Now - 600] THEN p[1]
        ELSE IF k = [from_address |-> AddrC, to_address |-> AddrA,
                     timestamp |-> Now - 600] THEN p[2]
        ELSE 0] : p \in SharedFunding}

Histories == SmallHistories \cup BulkHistories \cup FundedHistories

RECURSIVE SumCounts(_, _)
\* len() of the rows of h whose kind is in S
SumCounts(h, S) ==
    IF S = {} THEN 0
    ELSE LET k == CHOOSE x \in S : TRUE
         IN h[k] + SumCounts(h, S \ {k})

RECURSIVE SetMax(_)
SetMax(S) ==
    IF S = {} THEN 0
    ELSE LET x == CHOOSE y \in S : TRUE
         IN Max(x, SetMax(S \ {x}))

RECURSIVE SetMin(_)
SetMin(S) ==
    LET x == CHOOSE y \in S : TRUE
    IN IF S = {x} THEN x ELSE Min(x, SetMin(S \ {x}))

\* round(num / den, digits) for num >= 0, den > 0, in units of the last digit
Round(num, den) ==
    LET q == num \div den
        r == num % den
    IN IF 2 * r > den THEN q + 1
       ELSE IF 2 * r < den THEN q
       ELSE IF q % 2 = 0 THEN q ELSE q + 1

\* lines 339-350
_empty_velocity_score(address) ==
    [address             |-> Lower(address),
     tx_count_1h         |-> 0,
     tx_count_24h        |-> 0,
     tx_count_7d         |-> 0,
     avg_tx_per_day      |-> 0,
     max_tx_in_hour      |-> 0,
     burst_detected      |-> FALSE,
     velocity_risk_score |-> 0]

\* an empty funding score that still counts the low-diversity indicator
_empty_funding_score_CountsDiversity(address) ==
    [address                 |-> Lower(address),
     unique_funding_sources  |-> 0,
     primary_funding_source  |-> "None",
     funding_concentration   |-> 0,
     circular_funding_detected |-> FALSE,
     wash_trading_indicators |-> 1,
     funding_risk_score      |-> 67]

\* lines 352-362
_empty_funding_score(address) ==
    [address                 |-> Lower(address),
     unique_funding_sources  |-> 0,
     primary_funding_source  |-> "None",
     funding_concentration   |-> 0,
     circular_funding_detected |-> FALSE,
     wash_trading_indicators |-> 0,
     funding_risk_score      |-> 0]

\* the velocity risk without the cap at 1.0
velocity_risk_NoCap(tx_1h, avg_num, avg_den, burst_detected) ==
    [num |-> ((400 * tx_1h) \div BURST_TX_THRESHOLD
                + (IF burst_detected THEN 300 ELSE 0)) * avg_den
             + ((300 * avg_num) \div HIGH_VELOCITY_THRESHOLD),
     den |-> avg_den]

\* lines 171-175: min(1.0, tx_1h/10*0.4 + avg_per_day/50*0.3 + burst*0.3),
\* in thousandths, avg_per_day = avg_num / avg_den
velocity_risk(tx_1h, avg_num, avg_den, burst_detected) ==
    LET num == ((400 * tx_1h) \div BURST_TX_THRESHOLD
                  + (IF burst_detected THEN 300 ELSE 0)) * avg_den
               + ((300 * avg_num) \div HIGH_VELOCITY_THRESHOLD)
    IN [num |-> Min(1000 * avg_den, num), den |-> avg_den]

\* a mask that compares the addresses as written
AddrTxs_CaseSensitive(address) ==
    {k \in Kinds : k.from_address = address \/ k.to_address = address}

\* lines 131-136: the rows that name the address, compared in lower case
AddrTxs(address) ==
    {k \in Kinds : Lower(k.from_address) = Lower(address)
                     \/ Lower(k.to_address) = Lower(address)}

\* lines 111-186
analyze_velocity(transactions, address, reference_time) ==
    LET addr_txs == {k \in AddrTxs(address) : transactions[k] > 0}
        n        == SumCounts(transactions, addr_txs)
    IN IF n = 0 THEN _empty_velocity_score(address)
       ELSE
       LET since(t) == SumCounts(transactions, {k \in addr_txs : k.timestamp >= t})
           tx_1h  == since(reference_time - Hour)
           tx_24h == since(reference_time - Day)
           tx_7d  == since(reference_time - 7 * Day)
           stamps == {k.timestamp : k \in addr_txs}
           time_span == SetMax(stamps) - SetMin(stamps)
           \* avg_per_day = n / max(time_span / 86400, 1), as the fraction
           \* avg_num / avg_den; the timestamps are whole multiples of ten
           \* minutes, and the fraction is reduced by that
           avg_num == IF n > 1 THEN n * (Day \div 600) ELSE n
           avg_den == IF n > 1 THEN Max(time_span, Day) \div 600 ELSE 1
           buckets == {t \div Hour : t \in stamps}
           hourly(b) == SumCounts(transactions,
                                  {k \in addr_txs : k.timestamp \div Hour = b})
           max_tx_hour == SetMax({hourly(b) : b \in buckets})
           burst_detected == max_tx_hour >= BURST_TX_THRESHOLD
           risk == velocity_risk(tx_1h, avg_num, avg_den, burst_detected)
       IN [address             |-> Lower(address),
           tx_count_1h         |-> tx_1h,
           tx_count_24h        |-> tx_24h,
           tx_count_7d         |-> tx_7d,
           avg_tx_per_day      |-> Round(100 * avg_num, avg_den),
           max_tx_in_hour      |-> max_tx_hour,
           burst_detected      |-> burst_detected,
           velocity_risk_score |-> Round(risk.num, risk.den)]

\* circular funding reported whenever the address has sent anything
circular_sources_AnyOutgoing(funding_index, outgoing_recipients) ==
    IF outgoing_recipients # {} THEN funding_index ELSE {}

\* lines 224-225: the funding sources the address has itself sent to
circular_sources(funding_index, outgoing_recipients) ==
    funding_index \cap outgoing_recipients

\* lines 188-263
analyze_funding_patterns(transactions, address) ==
    LET incoming == {k \in Kinds : transactions[k] > 0
                                     /\ Lower(k.to_address) = Lower(address)}
        outgoing == {k \in Kinds : transactions[k] > 0
                                     /\ Lower(k.from_address) = Lower(address)}
        total_incoming == SumCounts(transactions, incoming)
    IN IF total_incoming = 0 THEN _empty_funding_score(address)
       ELSE
       LET sources == {Lower(k.from_address) : k \in incoming}
           \* value_counts(): rows per normalized source
           funding_sources(s) ==
               SumCounts(transactions, {k \in incoming : Lower(k.from_address) = s})
           unique_sources == Cardinality(sources)
           top == SetMax({funding_sources(s) : s \in sources})
           \* index[0]: a source with the highest count
           primary_source == CHOOSE s \in sources : funding_sources(s) = top
           outgoing_recipients == {Lower(k.to_address) : k \in outgoing}
           circular_detected == circular_sources(sources, outgoing_recipients) # {}
           mixer_funding == sources \cap known_mixer_addresses
           wash_indicators ==
               (IF 1000 * top > CONCENTRATION_THRESHOLD * total_incoming THEN 1 ELSE 0)
               + (IF unique_sources < MIN_FUNDING_DIVERSITY THEN 1 ELSE 0)
               + (IF circular_detected THEN 2 ELSE 0)
               + (IF mixer_funding # {} THEN 2 ELSE 0)
           \* concentration*0.3 + circular*0.3 + (wash_indicators/6)*0.4 in
           \* thousandths, over the denominator 6 * total_incoming
           risk_num == 1800 * top
                       + ((IF circular_detected THEN 1800 ELSE 0)
                            + 400 * wash_indicators) * total_incoming
           risk_den == 6 * total_incoming
       IN [address                   |-> Lower(address),
           unique_funding_sources    |-> unique_sources,
           primary_funding_source    |-> primary_source.id,
           funding_concentration     |-> Round(1000 * top, total_incoming),
           circular_funding_detected |-> circular_detected,
           wash_trading_indicators   |-> wash_indicators,
           funding_risk_score        |-> Round(Min(1000 * risk_den, risk_num), risk_den)]

\* lines 326-337, the score in ten-thousandths
_get_risk_level(score) ==
    IF score >= 8000 THEN "CRITICAL"
    ELSE IF score >= 6000 THEN "HIGH"
    ELSE IF score >= 4000 THEN "MEDIUM"
    ELSE IF score >= 2000 THEN "LOW"
    ELSE "MINIMAL"

\* lines 265-324; analyze_velocity is called without a reference time
analyze_address(transactions, address) ==
    LET velocity == analyze_velocity(transactions, address, Now)
        funding  == analyze_funding_patterns(transactions, address)
        suspicious_patterns ==
            (IF velocity.burst_detected THEN <<"burst">> ELSE <<>>)
            \o (IF velocity.avg_tx_per_day > 100 * HIGH_VELOCITY_THRESHOLD
                THEN <<"high_velocity">> ELSE <<>>)
            \o (IF funding.circular_funding_detected THEN <<"circular">> ELSE <<>>)
            \o (IF funding.funding_concentration > CONCENTRATION_THRESHOLD
                THEN <<"concentration">> ELSE <<>>)
            \o (IF funding.wash_trading_indicators >= 3 THEN <<"wash">> ELSE <<>>)
        \* velocity_risk_score * 0.4 + funding_risk_score * 0.6, in ten-thousandths
        overall_risk == 4 * velocity.velocity_risk_score
                        + 6 * funding.funding_risk_score
    IN [address             |-> Lower(address),
        velocity_score      |-> velocity,
        funding_pattern     |-> funding,
        overall_risk_score  |-> Round(overall_risk, 10),
        risk_level          |-> _get_risk_level(overall_risk),
        suspicious_patterns |-> suspicious_patterns,
        tx_analyzed         |-> SumCounts(transactions,
                                  {k \in AddrTxs(address) : transactions[k] > 0})]

\* the addresses and reference times the analyzer is asked about
Queries  == {AddrA, AddrAUpper, AddrB, AddrC}
RefTimes == {Now, Now - Day}

AnalyzeVelocity ==
    /\ \E address \in Queries, reference_time \in RefTimes :
         out' = [op |-> "analyze_velocity", address |-> address,
                 reference_time |-> reference_time,
                 result |-> analyze_velocity(history, address, reference_time)]
    /\ UNCHANGED history
    /\ UNCHANGED nonBehavVars

AnalyzeFundingPatterns ==
    /\ \E address \in Queries :
         out' = [op |-> "analyze_funding_patterns", address |-> address,
                 reference_time |-> Now,
                 result |-> analyze_funding_patterns(history, address)]
    /\ UNCHANGED history
    /\ UNCHANGED nonBehavVars

AnalyzeAddress ==
    /\ \E address \in Queries :
         out' = [op |-> "analyze_address", address |-> address,
                 reference_time |-> Now,
                 result |-> analyze_address(history, address)]
    /\ UNCHANGED history
    /\ UNCHANGED nonBehavVars

InitBehav ==
    /\ phase = "down"
    /\ bottom_level = "SAFE"
    /\ exploit_detector = "none"
    /\ feature_engineer = "none"
    /\ anomaly_detector = "none"
    /\ req = NoReq
    /\ req_env = NoEnv
    /\ resp = NoResp
    /\ ml_event = "none"
    /\ rule_results = <<>>
    /\ bpc = "idle"
    /\ batch = <<>>
    /\ results = <<>>
    /\ batch_events = <<>>
    /\ summary_counts = EmptyCounts
    /\ batch_resp = NoResp
    /\ history \in Histories
    /\ out = NoOut
    /\ ModelsConstructed
    /\ NoAddressCall
    /\ RateLimiterConstructed
    /\ NoMiddleware
    /\ NoExtras

NextBehav ==
    \/ AnalyzeVelocity
    \/ AnalyzeFundingPatterns
    \/ AnalyzeAddress

SpecBehav == InitBehav /\ [][NextBehav]_vars

(***************************************************************************)
(* src/models/feature_engineer.py and src/models/anomaly_detector.py as    *)
(* library objects (SpecModels).  One FeatureEngineer and one              *)
(* AnomalyDetector are shared by the callers, as the globals of main.py    *)
(* are.  The classifier is opaque: a fit either returns or raises, and a   *)
(* fitted classifier returns one malicious probability per row.            *)
(***************************************************************************)

\* the frames passed to process_transaction_data: with or without the
\* optional is_flash_loan column
Frames == {"with_flash_loan", "without_flash_loan"}

\* feature_engineer.py 44-63: the columns of `features`, in order
Columns(frame) ==
    <<"value_eth", "gas_used", "gas_price_gwei", "gas_cost_eth",
      "value_to_gas_ratio", "is_large_value", "is_high_gas",
      "is_high_gas_price">>
    \o (IF frame = "with_flash_loan" THEN <<"is_flash_loan">> ELSE <<>>)
    \o <<"log_value", "log_gas">>

\* feature_engineer.py 40-63: a caller enters process_transaction_data and
\* builds its local `features`
FeCompute(t) ==
    /\ ad_out.op = "none"
    /\ fe_pc[t] = "idle"
    /\ \E frame \in Frames :
         /\ fe_input' = [fe_input EXCEPT ![t] = frame]
         /\ fe_local' = [fe_local EXCEPT ![t] = Columns(frame)]
    /\ fe_pc' = [fe_pc EXCEPT ![t] = "computed"]
    /\ fe_ret' = [fe_ret EXCEPT ![t] = <<>>]
    /\ UNCHANGED <<fe_feature_names, ad_model, ad_is_trained, ad_out>>
    /\ UNCHANGED nonModelVars

\* feature_engineer.py 65: self.feature_names = features.columns.tolist()
FeStore(t) ==
    /\ fe_pc[t] = "computed"
    /\ fe_feature_names' = fe_local[t]
    /\ fe_pc' = [fe_pc EXCEPT ![t] = "stored"]
    /\ UNCHANGED <<fe_input, fe_local, fe_ret, ad_model, ad_is_trained, ad_out>>
    /\ UNCHANGED nonModelVars

\* feature_engineer.py 66: return features
FeReturn(t) ==
    /\ fe_pc[t] = "stored"
    /\ fe_ret' = [fe_ret EXCEPT ![t] = fe_local[t]]
    /\ fe_local' = [fe_local EXCEPT ![t] = <<>>]
    /\ fe_pc' = [fe_pc EXCEPT ![t] = "idle"]
    /\ UNCHANGED <<fe_feature_names, fe_input, ad_model, ad_is_trained, ad_out>>
    /\ UNCHANGED nonModelVars

\* A call of the detector is one step: it reads and writes nothing of the
\* FeatureEngineer, so it is taken while no caller is inside
\* process_transaction_data, and it is over before the next call starts.
DetectorFree ==
    /\ ad_out.op = "none"
    /\ \A t \in Callers : fe_pc[t] = "idle"

\* the label vectors of a training request, by the classes they contain
LabelClasses == {{0}, {1}, {0, 1}}

\* anomaly_detector.py 65-113: train().  The classifier is replaced by a
\* new one before the fit; is_trained is set only after the fit returned.
Train ==
    /\ DetectorFree
    /\ \E y \in LabelClasses, fit_ok \in BOOLEAN :
         /\ ad_model' = IF fit_ok THEN "fitted" ELSE "unfitted"
         /\ ad_is_trained' = (fit_ok \/ ad_is_trained)
         /\ ad_out' = [op |-> "train", classes |-> y, was_trained |-> ad_is_trained,
                       outcome |-> IF fit_ok THEN "ok" ELSE "raised"]
    /\ UNCHANGED <<fe_feature_names, fe_pc, fe_input, fe_local, fe_ret>>
    /\ UNCHANGED nonModelVars

\* main.py 94-99: the training request of lifespan(), made only for labels
\* with both classes
StartupTrain ==
    /\ DetectorFree
    /\ \E y \in LabelClasses, fit_ok \in BOOLEAN :
         IF Cardinality(y) > 1
         THEN /\ ad_model' = IF fit_ok THEN "fitted" ELSE "unfitted"
              /\ ad_is_trained' = (fit_ok \/ ad_is_trained)
              /\ ad_out' = [op |-> "startup_train", classes |-> y,
                            was_trained |-> ad_is_trained,
                            outcome |-> IF fit_ok THEN "ok" ELSE "raised"]
         ELSE /\ UNCHANGED <<ad_model, ad_is_trained>>
              /\ ad_out' = [op |-> "startup_train", classes |-> y,
                            was_trained |-> ad_is_trained,
                            outcome |-> "skipped"]
    /\ UNCHANGED <<fe_feature_names, fe_pc, fe_input, fe_local, fe_ret>>
    /\ UNCHANGED nonModelVars

\* anomaly_detector.py 224-240: load_model(); a missing or unreadable file
\* raises before any field is written
LoadModel ==
    /\ DetectorFree
    /\ \E load_ok \in BOOLEAN :
         /\ ad_model' = IF load_ok THEN "fitted" ELSE ad_model
         /\ ad_is_trained' = (load_ok \/ ad_is_trained)
         /\ ad_out' = [op |-> "load_model", classes |-> {}, was_trained |-> ad_is_trained,
                       outcome |-> IF load_ok THEN "ok" ELSE "raised"]
    /\ UNCHANGED <<fe_feature_names, fe_pc, fe_input, fe_local, fe_ret>>
    /\ UNCHANGED nonModelVars

\* the malicious probabilities a classifier may return for a row
RowProbs == {299, 300, 499, 500, 699, 700, 899, 900}

MaxX == 2      \* rows of a matrix passed to the detector

\* the probabilities of the rows of X
Matrices == UNION {[1..n -> RowProbs] : n \in 0..MaxX}

Thresholds == {DefaultThreshold, 700}

\* anomaly_detector.py 156-168: the result list of detect()
detect_results(probabilities, threshold) ==
    [i \in 1..Len(probabilities) |->
        [index        |-> i - 1,
         is_malicious |-> probabilities[i] >= threshold,
         confidence   |-> probabilities[i],
         risk_level   |-> _get_risk_level_ml(probabilities[i])]]

\* anomaly_detector.py 125-128 and 140-143: the guard of predict and
\* predict_proba, then the call of the classifier, which raises its own
\* error when it was never fitted
ModelCall ==
    IF ~ad_is_trained /\ ad_model = "none" THEN "model_not_trained"
    ELSE IF ad_model = "unfitted" THEN "classifier_error"
    ELSE "ok"

\* anomaly_detector.py 115-168: predict, predict_proba and detect
Predict ==
    /\ DetectorFree
    /\ \E op \in {"predict", "predict_proba", "detect"},
          X \in Matrices, threshold \in Thresholds :
         \* only detect takes a threshold
         /\ op # "detect" => (threshold = DefaultThreshold /\ Len(X) <= 1)
         /\ ad_out' = [op |-> op, X |-> X, threshold |-> threshold,
                       is_trained |-> ad_is_trained,
                       outcome |-> ModelCall,
                       results |-> IF ModelCall = "ok" /\ op = "detect"
                                   THEN detect_results(X, threshold) ELSE <<>>]
    /\ UNCHANGED <<ad_model, ad_is_trained>>
    /\ UNCHANGED <<fe_feature_names, fe_pc, fe_input, fe_local, fe_ret>>
    /\ UNCHANGED nonModelVars

\* the caller has the outcome of its call
DetectorReturn ==
    /\ ad_out.op # "none"
    /\ ad_out' = [op |-> "none"]
    /\ UNCHANGED <<ad_model, ad_is_trained>>
    /\ UNCHANGED <<fe_feature_names, fe_pc, fe_input, fe_local, fe_ret>>
    /\ UNCHANGED nonModelVars

InitModels ==
    /\ ApiDown
    /\ NoAnalysis
    /\ ModelsConstructed
    /\ NoAddressCall
    /\ RateLimiterConstructed
    /\ NoMiddleware
    /\ NoExtras

NextModels ==
    \/ \E t \in Callers : FeCompute(t)
    \/ \E t \in Callers : FeStore(t)
    \/ \E t \in Callers : FeReturn(t)
    \/ Train
    \/ StartupTrain
    \/ LoadModel
    \/ Predict
    \/ DetectorReturn

SpecModels == InitModels /\ [][NextModels]_vars

(***************************************************************************)
(* src/utils/address_validator.py and the request models of                *)
(* src/app/schemas.py (SpecAddr).  A string is the sequence of its         *)
(* characters; a value that is no string is [kind |-> "not_str"].          *)
(***************************************************************************)
HexDigits == {"0", "1", "2", "3", "4", "5", "6", "7", "8", "9",
              "a", "b", "c", "d", "e", "f", "A", "B", "C", "D", "E", "F"}

\* str.lower() on the characters the inputs are made of
LowerChar(c) ==
    CASE c = "A" -> "a" [] c = "B" -> "b" [] c = "C" -> "c" [] c = "D" -> "d"
      [] c = "E" -> "e" [] c = "F" -> "f" [] c = "G" -> "g" [] c = "X" -> "x"
      [] OTHER -> c

LowerStr(s) == [i \in 1..Len(s) |-> LowerChar(s[i])]

HexLen  == 40      \* [a-fA-F0-9]{40}
AddrLen == 42      \* len(address) != 42

Str(chars) == [kind |-> "str", chars |-> chars]
NotStr     == [kind |-> "not_str"]

\* The values passed in: a prefix, a run of one hex digit, at most one
\* character of the run replaced, and a suffix.
AddressInputs ==
    {NotStr} \cup
    {Str(prefix \o [i \in 1..n |-> IF i = pos THEN ch ELSE fill] \o suffix) :
        prefix \in {<<"0", "x">>, <<"0", "X">>, <<>>, <<" ", "0", "x">>},
        n      \in {0, 3, HexLen - 1, HexLen, HexLen + 1, AddrLen},
        fill   \in {"a", "F", "9"},
        pos    \in {0, 1, HexLen},
        ch     \in {"g", "G", " ", "\n"},
        suffix \in {<<>>, <<"\n">>, <<" ">>, <<"a", "\n">>}}

\* address_validator.py 19: ETH_ADDRESS_PATTERN.match(s) for
\* ^0x[a-fA-F0-9]{40}$ ; $ matches at the end of the string and also just
\* before a newline that ends the string
PatternMatch(s) ==
    /\ Len(s) >= 2 + HexLen
    /\ s[1] = "0"
    /\ s[2] = "x"
    /\ \A i \in 3..(2 + HexLen) : s[i] \in HexDigits
    /\ \/ Len(s) = 2 + HexLen
       \/ Len(s) = 3 + HexLen /\ s[3 + HexLen] = "\n"

\* address_validator.py 30-45
is_valid_eth_address_format(address) ==
    /\ address.kind = "str"
    /\ PatternMatch(address.chars)

\* address_validator.py 130-167, require_checksum = False
validate_eth_address(address) ==
    IF address.kind # "str"
    THEN [is_valid |-> FALSE, error |-> "Address must be a string"]
    ELSE IF address.chars = <<>>
    THEN [is_valid |-> FALSE, error |-> "Address cannot be empty"]
    ELSE IF ~(Len(address.chars) >= 2 /\ address.chars[1] = "0" /\ address.chars[2] = "x")
    THEN [is_valid |-> FALSE, error |-> "Address must start with '0x'"]
    ELSE IF Len(address.chars) # AddrLen
    THEN [is_valid |-> FALSE, error |-> "Address must be 42 characters"]
    ELSE IF ~is_valid_eth_address_format(address)
    THEN [is_valid |-> FALSE, error |-> "Address contains invalid characters"]
    ELSE [is_valid |-> TRUE, error |-> ""]

\* address_validator.py 170-185
normalize_address(address) ==
    IF ~is_valid_eth_address_format(address)
    THEN [outcome |-> "ValueError", value |-> <<>>]
    ELSE [outcome |-> "ok", value |-> LowerStr(address.chars)]

\* address_validator.py 208-226
validate_address_field(address) ==
    IF ~validate_eth_address(address).is_valid
    THEN [outcome |-> "ValueError", value |-> <<>>]
    ELSE normalize_address(address)

\* schemas.py 40-41 and 64: from_address, to_address and address are plain
\* `str` fields with no validator: a string is stored as given, anything
\* else is a validation error
AddressField(address) ==
    IF address.kind = "str"
    THEN [outcome |-> "ok", value |-> address.chars]
    ELSE [outcome |-> "ValidationError", value |-> <<>>]

\* a call of one of the validator's functions on the value
ValidatorCall ==
    /\ av_out.op = "none"
    /\ \E op \in {"is_valid_eth_address_format", "validate_eth_address",
                  "normalize_address", "validate_address_field"} :
         av_out' =
           [op |-> op,
            result |->
              CASE op = "is_valid_eth_address_format" ->
                     [outcome |-> "ok", value |-> is_valid_eth_address_format(av_in)]
                [] op = "validate_eth_address" ->
                     [outcome |-> "ok", value |-> validate_eth_address(av_in).is_valid]
                [] op = "normalize_address" -> normalize_address(av_in)
                [] OTHER -> validate_address_field(av_in)]
    /\ UNCHANGED av_in
    /\ UNCHANGED nonAddrVars

\* schemas.py 37-73: TransactionAnalysisRequest(from_address = value, ...),
\* TransactionAnalysisRequest(to_address = value, ...) or
\* AddressAnalysisRequest(address = value)
ConstructRequest ==
    /\ av_out.op = "none"
    /\ \E field \in {"from_address", "to_address", "address"} :
         av_out' = [op |-> field, result |-> AddressField(av_in)]
    /\ UNCHANGED av_in
    /\ UNCHANGED nonAddrVars

\* the caller has the outcome; the value may be passed again
ValidatorReturn ==
    /\ av_out.op # "none"
    /\ av_out' = [op |-> "none"]
    /\ UNCHANGED av_in
    /\ UNCHANGED nonAddrVars

InitAddr ==
    /\ ApiDown
    /\ NoAnalysis
    /\ ModelsConstructed
    /\ RateLimiterConstructed
    /\ NoMiddleware
    /\ NoExtras
    /\ av_in \in AddressInputs
    /\ av_out = [op |-> "none"]

NextAddr ==
    \/ ValidatorCall
    \/ ConstructRequest
    \/ ValidatorReturn

SpecAddr == InitAddr /\ [][NextAddr]_vars

(***************************************************************************)
(* src/app/security_middleware.py: RateLimiter (SpecRate).  Time is        *)
(* time.time() in whole seconds.  A bucket's tokens are kept multiplied by *)
(* window_seconds, so that the linear refill elapsed * max_requests /      *)
(* window_seconds stays an integer.                                        *)
(***************************************************************************)
max_requests      == 3      \* RateLimiter(max_requests=3, window_seconds=60)
window_seconds    == 60
_cleanup_interval == 300

Clients == {"c1", "c2"}

\* A request as the limiter reads it: the X-Forwarded-For header as its
\* comma-separated entries (<<>> when the header is absent, <<"">> when it
\* is present and empty) and the connection host ("None" when
\* request.client is None).
NoHeader == <<>>

Direct(host) == [forwarded |-> NoHeader, host |-> host]

RateRequests ==
    { Direct("c1"),
      Direct("c2"),
      [forwarded |-> <<"c1", " c2">>, host |-> "proxy"],
      [forwarded |-> <<"">>, host |-> "c2"] }

\* str.strip() on the entries used
Strip(entry) == IF entry = " c2" THEN "c2" ELSE entry

\* security_middleware.py 87-93
_get_client_id(request) ==
    IF request.forwarded # NoHeader /\ request.forwarded # <<"">>
    THEN Strip(request.forwarded[1])
    ELSE IF request.host # "None" THEN request.host ELSE "unknown"

\* the seconds between one request and the next
Gaps == {0, 10, 20, 60, 130, 300}

\* the pauses tried before a request: every pause for the direct requests
\* of the first client, none for the others
RequestGaps(request) ==
    IF request = Direct("c1") THEN Gaps ELSE {0}

MaxCalls == 5     \* is_allowed calls in a run

\* the refill without the cap at max_requests
_refill_tokens_NoCap(bucket, now) ==
    [tokens      |-> bucket.tokens + (now - bucket.last_update) * max_requests,
     last_update |-> now]

\* a refill that keeps whole tokens only
_refill_tokens_WholeTokens(bucket, now) ==
    [tokens      |-> window_seconds *
                       (Min(max_requests * window_seconds,
                            bucket.tokens
                              + (now - bucket.last_update) * max_requests)
                          \div window_seconds),
     last_update |-> now]

\* a refill at half the rate: max_requests tokens per two windows
_refill_tokens_HalfRate(bucket, now) ==
    [tokens      |-> Min(max_requests * window_seconds,
                         bucket.tokens
                           + ((now - bucket.last_update) * max_requests) \div 2),
     last_update |-> now]

\* security_middleware.py 95-103
_refill_tokens(bucket, now) ==
    [tokens      |-> Min(max_requests * window_seconds,
                         bucket.tokens + (now - bucket.last_update) * max_requests),
     last_update |-> now]

\* a cleanup that removes every bucket not touched in the current second
_cleanup_stale_buckets_Eager(buckets, last_cleanup, now) ==
    IF now - last_cleanup < _cleanup_interval
    THEN [buckets |-> buckets, last_cleanup |-> last_cleanup]
    ELSE [buckets |->
            [k \in {c \in DOMAIN buckets : ~(buckets[c].last_update < now)}
               |-> buckets[k]],
          last_cleanup |-> now]

\* security_middleware.py 105-119: the buckets kept, and _last_cleanup
_cleanup_stale_buckets(buckets, last_cleanup, now) ==
    IF now - last_cleanup < _cleanup_interval
    THEN [buckets |-> buckets, last_cleanup |-> last_cleanup]
    ELSE [buckets |->
            [k \in {c \in DOMAIN buckets :
                      ~(buckets[c].last_update < now - window_seconds * 2)}
               |-> buckets[k]],
          last_cleanup |-> now]

\* security_middleware.py 121-157: is_allowed for client_id at time now;
\* the buckets after it and what it returns
is_allowed(buckets, last_cleanup, client_id, now) ==
    LET cleaned == _cleanup_stale_buckets(buckets, last_cleanup, now)
        created == client_id \notin DOMAIN cleaned.buckets
        before  == IF created
                   THEN [tokens |-> max_requests * window_seconds,
                         last_update |-> now]
                   ELSE cleaned.buckets[client_id]
        bucket  == _refill_tokens(before, now)
        allowed == bucket.tokens >= window_seconds
        after   == IF allowed
                   THEN [bucket EXCEPT !.tokens = @ - window_seconds]
                   ELSE bucket
    IN [buckets      |-> [k \in DOMAIN cleaned.buckets \cup {client_id} |->
                             IF k = client_id THEN after ELSE cleaned.buckets[k]],
        last_cleanup |-> cleaned.last_cleanup,
        allowed      |-> allowed,
        created      |-> created,
        limit        |-> max_requests,
        remaining    |-> IF allowed THEN after.tokens \div window_seconds ELSE 0,
        \* 156: only a denial carries it; bucket.last_update is the refill's
        retry_after  |-> IF allowed THEN -1
                         ELSE window_seconds - (now - bucket.last_update),
        tokens       |-> after.tokens]

\* the record kept of one is_allowed call
LogEntry(request, now, r) ==
    [request |-> request, client |-> _get_client_id(request), t |-> now,
     allowed |-> r.allowed, created |-> r.created, remaining |-> r.remaining,
     retry_after |-> r.retry_after, tokens |-> r.tokens]

\* a request of a client arrives some seconds after the last one
IsAllowed ==
    /\ Len(rl_log) < MaxCalls
    /\ \E request \in RateRequests : \E gap \in RequestGaps(request) :
            LET now == rl_now + gap
                client_id == _get_client_id(request)
                r   == is_allowed(rl_buckets, rl_last_cleanup, client_id, now)
            IN /\ rl_now' = now
               /\ rl_buckets' = r.buckets
               /\ rl_last_cleanup' = r.last_cleanup
               /\ rl_log' = Append(rl_log, LogEntry(request, now, r))
    /\ UNCHANGED nonRateVars

InitRate ==
    /\ ApiDown
    /\ NoAnalysis
    /\ ModelsConstructed
    /\ NoAddressCall
    /\ RateLimiterConstructed
    /\ NoMiddleware
    /\ NoExtras

NextRate == IsAllowed

SpecRate == InitRate /\ [][NextRate]_vars

(***************************************************************************)
(* src/app/security_middleware.py: the middleware stack installed by       *)
(* setup_security_middleware (SpecMw).  An HTTP request passes the         *)
(* middleware classes from the outermost inwards; each dispatch either     *)
(* answers itself or awaits call_next.                                     *)
(***************************************************************************)
MAX_REQUEST_SIZE_BYTES == 1048576
AUDIT_LOG_ENABLED      == TRUE
PUBLIC_ENDPOINTS       == {"/", "/health", "/docs", "/openapi.json", "/redoc"}

MaxServed == 5    \* HTTP requests in a run

\* Starlette's add_middleware: user_middleware.insert(0, cls); the stack is
\* built over the list in reverse, so its first entry becomes the outermost
\* layer and the class added last sees the request first
add_middleware(user_middleware, cls) == <<cls>> \o user_middleware

\* security_middleware.py 567-576
setup_security_middleware(user_middleware) ==
    add_middleware(
        add_middleware(
            add_middleware(user_middleware, "AuditLogMiddleware"),
            "RequestValidationMiddleware"),
        "RateLimitMiddleware")

\* the content-length header: absent, or a number of bytes
NoLength == [present |-> FALSE, bytes |-> 0]
Length(n) == [present |-> TRUE, bytes |-> n]

HttpRequests ==
    [rate           : {Direct("c1")},
     path           : {"/api/analyze", "/health"},
     content_length : {NoLength, Length(100),
                       Length(MAX_REQUEST_SIZE_BYTES + 1)}]

\* the pauses tried before an HTTP request: a plain API request may come a
\* window later, the others come back to back
HttpGaps(request) ==
    IF request.path = "/api/analyze" /\ request.content_length = NoLength
    THEN {0, window_seconds}
    ELSE {0}

\* security_middleware.py 442-462: AuditLogger.log_request
log_request(audit, request, response_status) ==
    IF ~AUDIT_LOG_ENABLED THEN audit
    ELSE Append(audit, [kind |-> "REQUEST", path |-> request.path,
                        status |-> response_status])

\* The response of layers i, i+1, ... of the stack, and of the application
\* behind them, to a request at time st.now; st carries the rate limiter
\* and the audit log through the layers.
\*   AuditLogMiddleware.dispatch          524-539
\*   RequestValidationMiddleware.dispatch 366-382
\*   RateLimitMiddleware.dispatch         167-197
RECURSIVE call_next(_, _, _, _)
call_next(stack, i, request, st) ==
    IF i > Len(stack)
    THEN [status |-> 200, st |-> st]
    ELSE CASE stack[i] = "AuditLogMiddleware" ->
                LET response == call_next(stack, i + 1, request, st)
                IN [status |-> response.status,
                    st |-> [response.st EXCEPT
                              !.audit = log_request(@, request, response.status)]]
           [] stack[i] = "RequestValidationMiddleware" ->
                IF /\ request.content_length.present
                   /\ request.content_length.bytes > MAX_REQUEST_SIZE_BYTES
                THEN [status |-> 413, st |-> st]
                ELSE call_next(stack, i + 1, request, st)
           [] stack[i] = "RateLimitMiddleware" ->
                IF request.path \in PUBLIC_ENDPOINTS
                THEN call_next(stack, i + 1, request, st)
                ELSE LET r == is_allowed(st.buckets, st.last_cleanup,
                                         _get_client_id(request.rate), st.now)
                         limited == [st EXCEPT
                                       !.buckets = r.buckets,
                                       !.last_cleanup = r.last_cleanup,
                                       !.log = Append(@, LogEntry(request.rate,
                                                                  st.now, r))]
                     IN IF ~r.allowed
                        THEN [status |-> 429, st |-> limited]
                        ELSE call_next(stack, i + 1, request, limited)

\* setup_security_middleware(app), once
SetupSecurityMiddleware ==
    /\ mw_user_middleware = <<>>
    /\ mw_user_middleware' = setup_security_middleware(mw_user_middleware)
    /\ UNCHANGED <<mw_served, mw_audit>>
    /\ UNCHANGED rateVars
    /\ UNCHANGED nonMwVars

\* one HTTP request through the installed stack
HandleRequest ==
    /\ mw_user_middleware # <<>>
    /\ Len(mw_served) < MaxServed
    /\ \E request \in HttpRequests : \E gap \in HttpGaps(request) :
          LET now == rl_now + gap
              response == call_next(mw_user_middleware, 1, request,
                                    [now |-> now, buckets |-> rl_buckets,
                                     last_cleanup |-> rl_last_cleanup,
                                     log |-> rl_log, audit |-> mw_audit])
          IN /\ rl_now' = now
             /\ rl_buckets' = response.st.buckets
             /\ rl_last_cleanup' = response.st.last_cleanup
             /\ rl_log' = response.st.log
             /\ mw_audit' = response.st.audit
             /\ mw_served' = Append(mw_served,
                                    [path |-> request.path,
                                     content_length |-> request.content_length,
                                     status |-> response.status])
    /\ UNCHANGED mw_user_middleware
    /\ UNCHANGED nonMwVars

InitMw ==
    /\ ApiDown
    /\ NoAnalysis
    /\ ModelsConstructed
    /\ NoAddressCall
    /\ RateLimiterConstructed
    /\ NoMiddleware
    /\ NoExtras

NextMw ==
    \/ SetupSecurityMiddleware
    \/ HandleRequest

SpecMw == InitMw /\ [][NextMw]_vars

(***************************************************************************)
(* src/models/feature_engineer.py: the address-level velocity and funding  *)
(* features (SpecFeat), computed on the histories of the behavioural       *)
(* analyzer.                                                               *)
(***************************************************************************)
\* feature_engineer.py 163-213
compute_velocity_features(transactions, address) ==
    LET addr_txs == {k \in AddrTxs(address) : transactions[k] > 0}
        n        == SumCounts(transactions, addr_txs)
    IN IF n = 0
       THEN [velocity_tx_per_day |-> 0, velocity_max_hourly |-> 0,
             velocity_burst_count |-> 0, velocity_score |-> 0]
       ELSE
       LET stamps == {k.timestamp : k \in addr_txs}
           time_span_seconds == SetMax(stamps) - SetMin(stamps)
           \* tx_per_day = n / max(time_span_seconds / 86400, 1), as the
           \* fraction tx_num / tx_den reduced by ten minutes
           tx_num == n * (Day \div 600)
           tx_den == Max(time_span_seconds, Day) \div 600
           buckets == {t \div Hour : t \in stamps}
           hourly_counts(b) ==
               SumCounts(transactions,
                         {k \in addr_txs : k.timestamp \div Hour = b})
           max_hourly == SetMax({hourly_counts(b) : b \in buckets})
           \* (hourly_counts > 10).sum()
           burst_count == Cardinality({b \in buckets : hourly_counts(b) > 10})
           \* min(1.0, tx_per_day / 50 * 0.5 + max_hourly / 20 * 0.5), in
           \* thousandths over tx_den
           score_num == 10 * tx_num + 25 * max_hourly * tx_den
       IN [velocity_tx_per_day  |-> Round(100 * tx_num, tx_den),
           velocity_max_hourly  |-> max_hourly,
           velocity_burst_count |-> burst_count,
           velocity_score       |-> Round(Min(1000 * tx_den, score_num), tx_den)]

\* feature_engineer.py 215-261
compute_funding_pattern_features(transactions, address) ==
    LET incoming == {k \in Kinds : transactions[k] > 0
                                     /\ Lower(k.to_address) = Lower(address)}
        outgoing == {k \in Kinds : transactions[k] > 0
                                     /\ Lower(k.from_address) = Lower(address)}
        total == SumCounts(transactions, incoming)
    IN IF total = 0
       THEN [funding_source_count |-> 0, funding_concentration |-> 0,
             circular_funding_flag |-> 0, funding_diversity_score |-> 0]
       ELSE
       LET sources == {Lower(k.from_address) : k \in incoming}
           funding_sources(s) ==
               SumCounts(transactions,
                         {k \in incoming : Lower(k.from_address) = s})
           source_count == Cardinality(sources)
           top == SetMax({funding_sources(s) : s \in sources})
           outgoing_recipients == {Lower(k.to_address) : k \in outgoing}
           circular_flag ==
               IF sources \cap outgoing_recipients # {} THEN 1 ELSE 0
           \* (1 - concentration) * min(1.0, source_count / 10)
           diversity_num == (total - top) * Min(10, source_count)
       IN [funding_source_count    |-> source_count,
           funding_concentration   |-> Round(1000 * top, total),
           circular_funding_flag   |-> circular_flag,
           funding_diversity_score |-> Round(100 * diversity_num, total)]

ComputeVelocityFeatures ==
    /\ \E address \in Queries :
         out' = [op |-> "compute_velocity_features", address |-> address,
                 reference_time |-> Now,
                 result |-> compute_velocity_features(history, address)]
    /\ UNCHANGED history
    /\ UNCHANGED nonBehavVars

ComputeFundingPatternFeatures ==
    /\ \E address \in Queries :
         out' = [op |-> "compute_funding_pattern_features",
                 address |-> address, reference_time |-> Now,
                 result |-> compute_funding_pattern_features(history, address)]
    /\ UNCHANGED history
    /\ UNCHANGED nonBehavVars

InitFeat == InitBehav

NextFeat ==
    \/ ComputeVelocityFeatures
    \/ ComputeFundingPatternFeatures

SpecFeat == InitFeat /\ [][NextFeat]_vars

(***************************************************************************)
(* src/app/security_middleware.py: API-key authentication (SpecAuth).      *)
(***************************************************************************)
\* the X-API-Key header as the dependency receives it: None or a string
NoKey == [given |-> FALSE, key |-> ""]
Key(k) == [given |-> TRUE, key |-> k]

ApiKeys == {NoKey, Key(""), Key("k1"), Key("k2"), Key("other")}

\* SecurityConfig.API_KEYS, security_middleware.py 35
KeySets == {{}, {"k1"}, {"k1", "k2"}}

Paths == PUBLIC_ENDPOINTS \cup {"/api/analyze", "/api/batch"}

\* `not api_key`
Falsy(api_key) == ~api_key.given \/ api_key.key = ""

Accepted(returned) == [status |-> 200, returned |-> returned]
Rejected(status_code) == [status |-> status_code, returned |-> NoKey]

\* security_middleware.py 218-252: APIKeyAuth.__call__
APIKeyAuth_call(required, valid_keys, path, api_key) ==
    IF path \in PUBLIC_ENDPOINTS THEN Accepted(NoKey)
    ELSE IF ~required THEN Accepted(api_key)
    ELSE IF Falsy(api_key) THEN Rejected(401)
    ELSE IF api_key.key \notin valid_keys THEN Rejected(403)
    ELSE Accepted(api_key)

\* security_middleware.py 255-272: require_api_key, a dependency that gets
\* the header only; the path is that of the endpoint it is attached to
require_api_key(required, valid_keys, path, api_key) ==
    IF required /\ Falsy(api_key) THEN Rejected(401)
    ELSE IF required /\ api_key.key \notin valid_keys THEN Rejected(403)
    ELSE Accepted(api_key)

AuthInputs ==
    [kind : {"request"}, required : BOOLEAN, valid_keys : KeySets,
     path : Paths, api_key : ApiKeys]

\* a request reaches an endpoint guarded by an APIKeyAuth instance
ApiKeyAuthCall ==
    /\ au_out.op = "none"
    /\ \E i \in AuthInputs :
          /\ au_in' = i
          /\ au_out' = [op |-> "APIKeyAuth",
                        result |-> APIKeyAuth_call(i.required, i.valid_keys,
                                                   i.path, i.api_key)]
    /\ UNCHANGED nonAuthVars

\* a request reaches an endpoint that depends on require_api_key
RequireApiKeyCall ==
    /\ au_out.op = "none"
    /\ \E i \in AuthInputs :
          /\ au_in' = i
          /\ au_out' = [op |-> "require_api_key",
                        result |-> require_api_key(i.required, i.valid_keys,
                                                   i.path, i.api_key)]
    /\ UNCHANGED nonAuthVars

\* the response is sent; the next request may come
AuthReturn ==
    /\ au_out.op # "none"
    /\ au_out' = [op |-> "none"]
    /\ UNCHANGED au_in
    /\ UNCHANGED nonAuthVars

InitAuth ==
    /\ ApiDown
    /\ NoAnalysis
    /\ ModelsConstructed
    /\ NoAddressCall
    /\ RateLimiterConstructed
    /\ NoMiddleware
    /\ NoExtras

NextAuth ==
    \/ ApiKeyAuthCall
    \/ RequireApiKeyCall
    \/ AuthReturn

SpecAuth == InitAuth /\ [][NextAuth]_vars

(***************************************************************************)
(* src/collectors/etherscan_collector.py: address_exists and               *)
(* verify_address (SpecEth).  Each chain query is one step; the answers    *)
(* for one address stay the same until another address is taken.           *)
(***************************************************************************)
\* a query that failed returns 0 / False with an error message
ChainAnswers ==
    [balance     : {Answer(0, FALSE), Answer(0, TRUE), Answer(5, FALSE)},
     tx_count    : {Answer(0, FALSE), Answer(0, TRUE), Answer(3, FALSE)},
     is_contract : {Answer(FALSE, FALSE), Answer(FALSE, TRUE),
                    Answer(TRUE, FALSE)}]

\* address_exists always continues with the transaction count
AfterBalance_NoReturn(balance_wei) == "ae_tx_count"

\* etherscan_collector.py 321-323: where address_exists goes after get_balance
AfterBalance(balance_wei) ==
    IF balance_wei > 0 THEN "ae_return_true" ELSE "ae_tx_count"

\* etherscan_collector.py 325-327: and after get_transaction_count
AfterTxCount(tx_count) ==
    IF tx_count > 0 THEN "ae_return_true" ELSE "ae_is_contract"

\* another address: the chain answers are drawn anew
NewAddress ==
    /\ eth_pc = "idle"
    /\ eth_result # NoResults
    /\ \E a \in ChainAnswers : eth_answers' = a
    /\ eth_result' = NoResults
    /\ eth_queries' = <<>>
    /\ eth_locals' = NoLocals
    /\ UNCHANGED eth_pc
    /\ UNCHANGED nonEthVars

\* address_exists(address) is called: line 321, get_balance
AddressExistsCall ==
    /\ eth_pc = "idle"
    /\ ~eth_result.address_exists.done
    /\ eth_queries' = <<"get_balance">>
    /\ eth_locals' = [NoLocals EXCEPT !.balance_wei = eth_answers.balance.value]
    /\ eth_pc' = AfterBalance(eth_answers.balance.value)
    /\ UNCHANGED <<eth_answers, eth_result>>
    /\ UNCHANGED nonEthVars

\* line 325, get_transaction_count
AddressExistsTxCount ==
    /\ eth_pc = "ae_tx_count"
    /\ eth_queries' = Append(eth_queries, "get_transaction_count")
    /\ eth_locals' = [eth_locals EXCEPT !.tx_count = eth_answers.tx_count.value]
    /\ eth_pc' = AfterTxCount(eth_answers.tx_count.value)
    /\ UNCHANGED <<eth_answers, eth_result>>
    /\ UNCHANGED nonEthVars

\* lines 329-330, is_contract and the return of its answer
AddressExistsIsContract ==
    /\ eth_pc = "ae_is_contract"
    /\ eth_queries' = Append(eth_queries, "is_contract")
    /\ eth_locals' = [eth_locals EXCEPT
                        !.is_contract = eth_answers.is_contract.value]
    /\ eth_result' = [eth_result EXCEPT
                        !.address_exists =
                            [done    |-> TRUE,
                             exists  |-> eth_answers.is_contract.value,
                             queries |-> Append(eth_queries, "is_contract")]]
    /\ eth_pc' = "idle"
    /\ UNCHANGED eth_answers
    /\ UNCHANGED nonEthVars

\* lines 323 and 327: return True
AddressExistsReturnTrue ==
    /\ eth_pc = "ae_return_true"
    /\ eth_result' = [eth_result EXCEPT
                        !.address_exists = [done    |-> TRUE,
                                            exists  |-> TRUE,
                                            queries |-> eth_queries]]
    /\ eth_pc' = "idle"
    /\ UNCHANGED <<eth_answers, eth_queries, eth_locals>>
    /\ UNCHANGED nonEthVars

\* the errors list after one more answer
WithError(errors, name, answer) ==
    IF answer.error THEN Append(errors, name) ELSE errors

\* verify_address(address) is called: lines 255-259, get_balance
VerifyAddressCall ==
    /\ eth_pc = "idle"
    /\ ~eth_result.verify_address.done
    /\ eth_queries' = <<"get_balance">>
    /\ eth_locals' = [NoLocals EXCEPT
                        !.balance_wei = eth_answers.balance.value,
                        !.errors = WithError(<<>>, "Balance", eth_answers.balance)]
    /\ eth_pc' = "va_tx_count"
    /\ UNCHANGED <<eth_answers, eth_result>>
    /\ UNCHANGED nonEthVars

\* lines 261-264, get_transaction_count
VerifyAddressTxCount ==
    /\ eth_pc = "va_tx_count"
    /\ eth_queries' = Append(eth_queries, "get_transaction_count")
    /\ eth_locals' = [eth_locals EXCEPT
                        !.tx_count = eth_answers.tx_count.value,
                        !.errors = WithError(@, "TxCount", eth_answers.tx_count)]
    /\ eth_pc' = "va_is_contract"
    /\ UNCHANGED <<eth_answers, eth_result>>
    /\ UNCHANGED nonEthVars

\* lines 266-269, is_contract
VerifyAddressIsContract ==
    /\ eth_pc = "va_is_contract"
    /\ eth_queries' = Append(eth_queries, "is_contract")
    /\ eth_locals' = [eth_locals EXCEPT
                        !.is_contract = eth_answers.is_contract.value,
                        !.errors = WithError(@, "Contract",
                                             eth_answers.is_contract)]
    /\ eth_pc' = "va_first_tx"
    /\ UNCHANGED <<eth_answers, eth_result>>
    /\ UNCHANGED nonEthVars

\* lines 271-304: get_first_transaction, which fails when the transaction
\* list does, and the AddressVerificationResult
VerifyAddressReturn ==
    /\ eth_pc = "va_first_tx"
    /\ eth_queries' = Append(eth_queries, "get_first_transaction")
    /\ eth_locals' = [eth_locals EXCEPT
                        !.errors = WithError(@, "FirstTx", eth_answers.tx_count)]
    /\ eth_result' = [eth_result EXCEPT
                        !.verify_address =
                            [done    |-> TRUE,
                             exists  |-> \/ eth_locals.balance_wei > 0
                                         \/ eth_locals.tx_count > 0
                                         \/ eth_locals.is_contract,
                             is_contract       |-> eth_locals.is_contract,
                             balance_wei       |-> eth_locals.balance_wei,
                             transaction_count |-> eth_locals.tx_count,
                             error |-> WithError(eth_locals.errors, "FirstTx",
                                                 eth_answers.tx_count)]]
    /\ eth_pc' = "idle"
    /\ UNCHANGED eth_answers
    /\ UNCHANGED nonEthVars

InitEth ==
    /\ ApiDown
    /\ NoAnalysis
    /\ ModelsConstructed
    /\ NoAddressCall
    /\ RateLimiterConstructed
    /\ NoMiddleware
    /\ NoExtras

NextEth ==
    \/ NewAddress
    \/ AddressExistsCall
    \/ AddressExistsTxCount
    \/ AddressExistsIsContract
    \/ AddressExistsReturnTrue
    \/ VerifyAddressCall
    \/ VerifyAddressTxCount
    \/ VerifyAddressIsContract
    \/ VerifyAddressReturn

SpecEth == InitEth /\ [][NextEth]_vars

(***************************************************************************)
(* Properties of the API (Spec).                                           *)
(***************************************************************************)
\* /api/analyze has returned a verdict for req
VerdictReturned ==
    ml_event \in {"not_run", "raised", "returned"} /\ resp.status = 200

IsKnownAttackerTx(tx) ==
    \/ Lower(tx.from_address) \in known_attacker_addresses
    \/ Lower(tx.to_address) \in known_attacker_addresses

HasCritical(rules) ==
    \E i \in DOMAIN rules : rules[i].is_triggered /\ rules[i].severity = "CRITICAL"

\* the five rule-derived fields of a verdict
RuleFields(r) ==
    [risk_score        |-> r.risk_score,
     risk_level        |-> r.risk_level,
     is_suspicious     |-> r.is_suspicious,
     triggered_rules   |-> r.triggered_rules,
     all_rules_checked |-> r.all_rules_checked]

\* C1: a transaction whose from_address or to_address is a registered
\* known-attacker address, in any letter case and whatever its other fields,
\* gets is_suspicious = true and at least one triggered CRITICAL rule, as a
\* single verdict and as an item of a batch.
C1_KnownAttackerIsCritical ==
    /\ (VerdictReturned /\ IsKnownAttackerTx(req))
          => (resp.is_suspicious /\ HasCritical(resp.triggered_rules))
    /\ \A i \in DOMAIN results :
          IsKnownAttackerTx(batch[i])
             => (results[i].is_suspicious /\ HasCritical(results[i].triggered_rules))

C1_Witness ==
    /\ VerdictReturned
    /\ req.from_address = AttackerMixed /\ req.to_address = CleanAddr
    /\ req.value_eth = 1 /\ req.gas_used = 100000 /\ req.gas_price_gwei = 25
    /\ ~req.is_flash_loan
    /\ resp.is_suspicious /\ HasCritical(resp.triggered_rules)

\* C2: the reported risk_level is never lower than the highest severity
\* among the verdict's triggered rules.
C2_LevelNotBelowSeverity ==
    VerdictReturned =>
        \A i \in DOMAIN resp.triggered_rules :
            LevelRank(resp.risk_level) >= LevelRank(resp.triggered_rules[i].severity)

\* a MEDIUM rule alone, with a score in the LOW band, still reports MEDIUM
C2_Witness ==
    /\ VerdictReturned
    /\ Len(resp.triggered_rules) = 1
    /\ resp.triggered_rules[1].severity = "MEDIUM"
    /\ resp.risk_score < 400
    /\ resp.risk_level = "MEDIUM"

\* C3: every evaluation runs all six registered rules: detect_all returns one
\* RuleResult per registered rule, in order, also after a CRITICAL rule
\* triggered and when a rule failed internally, and all_rules_checked (and
\* rules_checked of the rule-only endpoint) equals the number of rules.
C3_AllRulesChecked ==
    /\ VerdictReturned => resp.all_rules_checked = Len(RuleIds)
    /\ (ml_event = "rules_only" /\ resp.status = 200)
          => (resp.rules_checked = Len(RuleIds) /\ Len(resp.results) = Len(RuleIds))
    /\ ml_event \in {"rules_only", "library"} /\ rule_results # <<>>
          => /\ Len(rule_results) = Len(RuleIds)
             /\ \A i \in DOMAIN rule_results : rule_results[i].rule_id = RuleIds[i]
    /\ \A i \in DOMAIN results : results[i].all_rules_checked = Len(RuleIds)

\* the first rule triggered CRITICAL, the last rule failed, all six reported
C3_Witness ==
    /\ ml_event = "library"
    /\ Len(rule_results) = 6
    /\ rule_results[1].is_triggered /\ rule_results[1].severity = "CRITICAL"
    /\ rule_results[2].is_triggered
    /\ req_env.failing = {"same_block_burst"} /\ req_env.ctx = 9
    /\ ~rule_results[6].is_triggered

\* C4: is_suspicious holds exactly when risk_score reaches the suspicion
\* threshold or a triggered rule has severity HIGH or CRITICAL, and
\* triggered_rules holds exactly the rule results that triggered.
C4_SuspiciousIff ==
    VerdictReturned =>
        /\ resp.is_suspicious <=>
             \/ resp.risk_score >= SuspicionThreshold
             \/ \E i \in DOMAIN resp.triggered_rules :
                   resp.triggered_rules[i].severity \in {"HIGH", "CRITICAL"}
        /\ resp.triggered_rules
             = Triggered(detect_all(req, req_env.ctx, req_env.failing))
        /\ \A i \in DOMAIN resp.triggered_rules : resp.triggered_rules[i].is_triggered

\* suspicious through a HIGH rule although the score is below the threshold
C4_Witness ==
    /\ VerdictReturned
    /\ resp.is_suspicious
    /\ resp.risk_score < SuspicionThreshold
    /\ \E i \in DOMAIN resp.triggered_rules : resp.triggered_rules[i].severity = "HIGH"

\* C5: the rule-derived fields of a verdict are those of the rule engine for
\* the transaction, whatever the anomaly model did (any probability, absent
\* components, an error): only ml_prediction depends on it.
C5_MlAdvisoryOnly ==
    /\ VerdictReturned
          => RuleFields(resp)
               = analyze(req, req_env.ctx, req_env.failing, bottom_level)
    /\ \A i \in DOMAIN results :
          RuleFields(results[i]) = analyze(batch[i], NoContext, {}, bottom_level)

\* the model says CRITICAL with confidence 0.95, the verdict stays at the bottom
C5_Witness ==
    /\ VerdictReturned
    /\ ml_event = "returned"
    /\ resp.ml_prediction.risk_level = "CRITICAL"
    /\ resp.ml_prediction.is_malicious
    /\ resp.risk_score = 0
    /\ ~resp.is_suspicious
    /\ resp.risk_level = bottom_level

\* C6: an ML failure never fails the analysis: when the ML section raised
\* (untrained model, failing extraction or inference) the verdict is the
\* complete rule-only verdict with a structured error in ml_prediction, and
\* when the ML components are not initialised ml_prediction is null.
C6_MlFailureDegrades ==
    /\ ml_event = "raised"
          => /\ resp.status = 200
             /\ resp.ml_prediction = MlError
             /\ RuleFields(resp)
                  = analyze(req, req_env.ctx, req_env.failing, bottom_level)
    /\ ml_event = "not_run"
          => (resp.status = 200 /\ resp.ml_prediction = MlNull)
    /\ ml_event = "returned"
          => (resp.status = 200 /\ resp.ml_prediction.kind = "result")
    /\ (VerdictReturned /\ anomaly_detector = "untrained"
          /\ feature_engineer = "ready")
          => ml_event = "raised"
    /\ \A i \in DOMAIN results :
          /\ batch_events[i] = "raised" => results[i].ml_prediction = MlError
          /\ batch_events[i] = "not_run" => results[i].ml_prediction = MlNull

C6_Witness ==
    /\ VerdictReturned
    /\ ml_event = "raised"
    /\ anomaly_detector = "untrained"
    /\ resp.ml_prediction = MlError
    /\ resp.risk_level = "CRITICAL"

CountLevel(rs, levels) == Cardinality({i \in DOMAIN rs : rs[i].risk_level \in levels})

\* C7: a batch of N transactions that returns has N results, total_analyzed
\* = N, every result counted in exactly one tier (MINIMAL in low), so the
\* five tier counts sum to N, and suspicious_count <= N.
C7_BatchSummary ==
    (bpc = "done" /\ batch_resp.status = 200) =>
        LET sm == batch_resp.summary
            rs == batch_resp.results
            N  == Len(batch)
        IN /\ Len(rs) = N
           /\ sm.total_analyzed = N
           /\ sm.critical_count + sm.high_risk_count + sm.medium_risk_count
                + sm.low_risk_count + sm.safe_count = N
           /\ sm.critical_count    = CountLevel(rs, {"CRITICAL"})
           /\ sm.high_risk_count   = CountLevel(rs, {"HIGH"})
           /\ sm.medium_risk_count = CountLevel(rs, {"MEDIUM"})
           /\ sm.low_risk_count    = CountLevel(rs, {"LOW", "MINIMAL"})
           /\ sm.safe_count        = CountLevel(rs, {"SAFE"})
           /\ sm.suspicious_count
                = Cardinality({i \in DOMAIN rs : rs[i].is_suspicious})
           /\ sm.suspicious_count <= N

C7_Witness ==
    /\ bpc = "done" /\ batch_resp.status = 200
    /\ Len(batch) = 2
    /\ batch_resp.results[1].risk_level = "MINIMAL"
    /\ batch_resp.results[2].risk_level = "CRITICAL"
    /\ batch_resp.summary.low_risk_count = 1
    /\ batch_resp.summary.critical_count = 1
    /\ batch_resp.summary.suspicious_count = 1

\* C8: in a batch the failure of one item never aborts the batch: whenever
\* the batch request ends, it ends with one result per transaction, the
\* failing items carrying their own error -- for a model error and for an
\* error raised by the per-item analysis itself.
C8_BatchIsolatesFailures ==
    bpc = "done" =>
        /\ batch_resp.status = 200
        /\ Len(batch_resp.results) = Len(batch)
        /\ \A i \in DOMAIN batch_events :
              batch_events[i] = "raised"
                 => batch_resp.results[i].ml_prediction = MlError


(***************************************************************************)
(* Properties of the behavioural analyzer (SpecBehav).                     *)
(***************************************************************************)

\* no row of the history names the address, in either role and in any case
Absent(address) ==
    \A k \in Kinds :
        history[k] > 0 =>
            /\ Lower(k.from_address) # Lower(address)
            /\ Lower(k.to_address) # Lower(address)

ZeroVelocity(v) ==
    /\ v.tx_count_1h = 0
    /\ v.tx_count_24h = 0
    /\ v.tx_count_7d = 0
    /\ v.avg_tx_per_day = 0
    /\ v.max_tx_in_hour = 0
    /\ v.burst_detected = FALSE
    /\ v.velocity_risk_score = 0

ZeroFunding(f) ==
    /\ f.unique_funding_sources = 0
    /\ f.primary_funding_source = "None"
    /\ f.funding_concentration = 0
    /\ f.circular_funding_detected = FALSE
    /\ f.wash_trading_indicators = 0
    /\ f.funding_risk_score = 0

\* C9: for an address that appears in no transaction of the history,
\* analyze_velocity returns the all-zero velocity score,
\* analyze_funding_patterns the all-zero funding score, and analyze_address
\* an overall risk of 0, the level MINIMAL and no suspicious pattern.
C9_AbsentAddressIsZero ==
    (out.op # "none" /\ Absent(out.address)) =>
        /\ out.op = "analyze_velocity" => ZeroVelocity(out.result)
        /\ out.op = "analyze_funding_patterns" => ZeroFunding(out.result)
        /\ out.op = "analyze_address" =>
              /\ ZeroVelocity(out.result.velocity_score)
              /\ ZeroFunding(out.result.funding_pattern)
              /\ out.result.overall_risk_score = 0
              /\ out.result.risk_level = "MINIMAL"
              /\ out.result.suspicious_patterns = <<>>

\* a full report for an address absent from a history that has rows
C9_Witness ==
    /\ out.op = "analyze_address"
    /\ Absent(out.address)
    /\ history # NoRows
    /\ out.result.tx_analyzed = 0

UnitInterval(x) == x \in 0..1000

\* C10: for every history and every address, velocity_risk_score,
\* funding_concentration, funding_risk_score and overall_risk_score lie in
\* the closed interval from 0 to 1 (0..1000 thousandths).
C10_ScoresInUnitInterval ==
    /\ out.op = "analyze_velocity" =>
          UnitInterval(out.result.velocity_risk_score)
    /\ out.op = "analyze_funding_patterns" =>
          /\ UnitInterval(out.result.funding_concentration)
          /\ UnitInterval(out.result.funding_risk_score)
    /\ out.op = "analyze_address" =>
          /\ UnitInterval(out.result.velocity_score.velocity_risk_score)
          /\ UnitInterval(out.result.funding_pattern.funding_concentration)
          /\ UnitInterval(out.result.funding_pattern.funding_risk_score)
          /\ UnitInterval(out.result.overall_risk_score)

\* a report whose velocity risk sits at the cap and whose funding comes from
\* a single source
C10_Witness ==
    /\ out.op = "analyze_address"
    /\ out.result.velocity_score.velocity_risk_score = 1000
    /\ out.result.funding_pattern.funding_concentration = 1000
    /\ out.result.overall_risk_score > 0

\* the band of a score given in thousandths
ScoreBand(score) ==
    IF score >= 800 THEN "CRITICAL"
    ELSE IF score >= 600 THEN "HIGH"
    ELSE IF score >= 400 THEN "MEDIUM"
    ELSE IF score >= 200 THEN "LOW"
    ELSE "MINIMAL"

\* C11: in every behavioural report the risk_level is the band
\* (0.8/0.6/0.4/0.2) of the reported overall_risk_score, and that score is
\* 0.4 * velocity_risk_score + 0.6 * funding_risk_score of the same report
\* rounded to 3 decimals.
C11_LevelIsBandOfReportedScore ==
    out.op = "analyze_address" =>
        /\ out.result.overall_risk_score =
              Round(4 * out.result.velocity_score.velocity_risk_score
                      + 6 * out.result.funding_pattern.funding_risk_score, 10)
        /\ out.result.risk_level = ScoreBand(out.result.overall_risk_score)

\* the funding score of a result, whichever operation produced it
FundingOf(o) ==
    IF o.op = "analyze_address" THEN o.result.funding_pattern ELSE o.result

\* the address with its letters in lower case
FoldCase(a) == Addr(a.id, FALSE)

Senders(address) ==
    {FoldCase(k.from_address) :
        k \in {x \in Kinds : history[x] > 0 /\ FoldCase(x.to_address) = FoldCase(address)}}

Recipients(address) ==
    {FoldCase(k.to_address) :
        k \in {x \in Kinds : history[x] > 0 /\ FoldCase(x.from_address) = FoldCase(address)}}

\* C12: circular_funding_detected is true exactly when some lower-cased
\* sender of a transaction into the address is also a recipient of a
\* transaction sent by the address; it is false when the address has no
\* outgoing or no incoming transaction.
C12_CircularIff ==
    out.op \in {"analyze_funding_patterns", "analyze_address"} =>
        /\ FundingOf(out).circular_funding_detected
              = ((Senders(out.address) \cap Recipients(out.address)) # {})
        /\ (Senders(out.address) = {} \/ Recipients(out.address) = {})
              => ~FundingOf(out).circular_funding_detected

\* the history {A -> B, B -> A} analysed for A
C12_Witness ==
    /\ out.op = "analyze_funding_patterns"
    /\ out.address = AddrA
    /\ \A k \in Kinds :
          history[k] = IF /\ k.timestamp = Now - 600
                          /\ <<k.from_address, k.to_address>>
                               \in {<<AddrA, AddrB>>, <<AddrB, AddrA>>}
                       THEN 1 ELSE 0
    /\ out.result.circular_funding_detected

\* the history with every address written in lower case
FoldHistory(h) ==
    [k \in Kinds |->
        IF k.from_address.upper \/ k.to_address.upper THEN 0
        ELSE SumCounts(h, {x \in Kinds :
                 /\ FoldCase(x.from_address) = k.from_address
                 /\ FoldCase(x.to_address) = k.to_address
                 /\ x.timestamp = k.timestamp})]

\* C13: address matching is case-insensitive: the velocity, funding and
\* overall results are the same when the queried address or any address of
\* the history is written in another letter case, and funding sources that
\* differ only in case count as one source.
C13_CaseInsensitive ==
    /\ out.op = "analyze_velocity" =>
          out.result = analyze_velocity(FoldHistory(history),
                                        FoldCase(out.address), out.reference_time)
    /\ out.op = "analyze_funding_patterns" =>
          out.result = analyze_funding_patterns(FoldHistory(history),
                                                FoldCase(out.address))
    /\ out.op = "analyze_address" =>
          out.result = analyze_address(FoldHistory(history), FoldCase(out.address))
    /\ out.op \in {"analyze_funding_patterns", "analyze_address"} =>
          FundingOf(out).unique_funding_sources = Cardinality(Senders(out.address))

\* B funded by a and by A: one source; and A queried in upper case while
\* the history names it in lower case
C13_Witness ==
    /\ out.op = "analyze_funding_patterns"
    /\ out.address = AddrB
    /\ history[[from_address |-> AddrA, to_address |-> AddrB, timestamp |-> Now - 600]] = 1
    /\ history[[from_address |-> AddrAUpper, to_address |-> AddrB, timestamp |-> Now - 600]] = 1
    /\ out.result.unique_funding_sources = 1
    /\ out.result.funding_concentration = 1000

(***************************************************************************)
(* Properties of the FeatureEngineer and the AnomalyDetector (SpecModels). *)
(***************************************************************************)

\* a step of a scoring operation: process_transaction_data or
\* predict / predict_proba / detect
ScoringStep ==
    \/ \E t \in Callers : FeCompute(t) \/ FeStore(t) \/ FeReturn(t)
    \/ Predict

\* C14: the scoring operations are stateless: no step of
\* process_transaction_data or of detect writes state shared between
\* invocations, so the instances stay as they were, and under any
\* interleaving each call returns what it returns when run alone.
C14_ScoringIsStateless ==
    /\ [][ScoringStep =>
            /\ fe_feature_names' = fe_feature_names
            /\ ad_model' = ad_model
            /\ ad_is_trained' = ad_is_trained]_vars
    /\ [](\A t \in Callers :
            fe_ret[t] # <<>> => fe_ret[t] = Columns(fe_input[t]))

\* C15: detect(X, threshold) returns one record per row, in row order,
\* with confidence the row's probability p, is_malicious iff p >= threshold,
\* and risk_level CRITICAL iff p >= 0.9, HIGH iff 0.7 <= p < 0.9, MEDIUM iff
\* 0.5 <= p < 0.7, LOW iff 0.3 <= p < 0.5, MINIMAL otherwise; with the
\* default threshold is_malicious holds exactly for MEDIUM, HIGH, CRITICAL.
C15_DetectRecords ==
    (ad_out.op = "detect" /\ ad_out.outcome = "ok") =>
        /\ Len(ad_out.results) = Len(ad_out.X)
        /\ \A i \in 1..Len(ad_out.X) :
              LET p == ad_out.X[i]
                  r == ad_out.results[i]
              IN /\ r.index = i - 1
                 /\ r.confidence = p
                 /\ r.is_malicious = (p >= ad_out.threshold)
                 /\ (r.risk_level = "CRITICAL") = (p >= 900)
                 /\ (r.risk_level = "HIGH") = (700 <= p /\ p < 900)
                 /\ (r.risk_level = "MEDIUM") = (500 <= p /\ p < 700)
                 /\ (r.risk_level = "LOW") = (300 <= p /\ p < 500)
                 /\ (r.risk_level = "MINIMAL") = (p < 300)
                 /\ ad_out.threshold = 500 =>
                      (r.is_malicious
                         = (r.risk_level \in {"MEDIUM", "HIGH", "CRITICAL"}))

\* two rows on the two sides of the default threshold, the first exactly
\* on it
C15_Witness ==
    /\ ad_out.op = "detect"
    /\ ad_out.outcome = "ok"
    /\ ad_out.threshold = 500
    /\ ad_out.X = <<500, 499>>
    /\ ad_out.results[1].is_malicious
    /\ ~ad_out.results[2].is_malicious

\* C16: predict, predict_proba and detect on a detector that was neither
\* trained nor loaded fail with the model-not-trained error of the
\* detector's own guard, in every state before the first successful train
\* or load_model.
C16_UntrainedGuardError ==
    (ad_out.op \in {"predict", "predict_proba", "detect"} /\ ~ad_out.is_trained)
        => ad_out.outcome = "model_not_trained"

\* C17: a training request whose labels hold fewer than two classes is
\* skipped: an untrained detector is still untrained after it and holds no
\* fitted model, at startup and for a direct call of train alike.
C17_SingleClassSkipped ==
    (/\ ad_out.op \in {"train", "startup_train"}
     /\ Cardinality(ad_out.classes) < 2
     /\ ~ad_out.was_trained)
        => (~ad_is_trained /\ ad_model # "fitted")

(***************************************************************************)
(* Properties of the address validation (SpecAddr).                        *)
(***************************************************************************)

\* a string of exactly 42 characters: 0x and 40 hexadecimal digits
IsEthAddress(v) ==
    /\ v.kind = "str"
    /\ Len(v.chars) = 42
    /\ v.chars[1] = "0"
    /\ v.chars[2] = "x"
    /\ \A i \in 3..42 : v.chars[i] \in HexDigits

\* C18: is_valid_eth_address_format(s) is True exactly for the strings of
\* 42 characters made of 0x and 40 hexadecimal digits of either case, every
\* other value is rejected, and validate_eth_address without checksum
\* accepts exactly the same inputs.
C18_FormatExactly42 ==
    /\ av_out.op = "is_valid_eth_address_format" =>
          av_out.result.value = IsEthAddress(av_in)
    /\ av_out.op = "validate_eth_address" =>
          /\ av_out.result.value = IsEthAddress(av_in)
          /\ av_out.result.value = is_valid_eth_address_format(av_in)

\* C19: constructing a TransactionAnalysisRequest or AddressAnalysisRequest
\* rejects every from_address, to_address or address that is no valid
\* Ethereum address, and stores every accepted address in lower case.
C19_SchemaValidatesAddresses ==
    av_out.op \in {"from_address", "to_address", "address"} =>
        /\ (av_out.result.outcome = "ok") = IsEthAddress(av_in)
        /\ av_out.result.outcome = "ok" =>
              av_out.result.value = LowerStr(av_in.chars)

(***************************************************************************)
(* Properties of the rate limiter (SpecRate).                              *)
(***************************************************************************)

\* the calls of one client, in order
ClientLog(c) == SelectSeq(rl_log, LAMBDA e : e.client = c)

\* the allowed calls among entries i..j of a log
AllowedIn(log, i, j) == Cardinality({k \in i..j : log[k].allowed})

\* C20: for one client id the number of requests allowed within a time
\* interval of length T never exceeds max_requests + T * max_requests /
\* window_seconds; a new client's first max_requests back-to-back requests
\* are allowed, the first with remaining = max_requests - 1, and the next
\* one with no time elapsed is denied with remaining = 0.
C20_RateBound ==
    \A c \in Clients :
        LET log == ClientLog(c)
        IN /\ \A i \in 1..Len(log) : \A j \in i..Len(log) :
                 AllowedIn(log, i, j) * window_seconds
                     <= max_requests * window_seconds
                          + (log[j].t - log[i].t) * max_requests
           /\ Len(log) >= 1 =>
                 (log[1].allowed /\ log[1].remaining = max_requests - 1)
           /\ \A k \in 1..Len(log) :
                 log[k].t = log[1].t =>
                     /\ k <= max_requests => log[k].allowed
                     /\ k = max_requests + 1 =>
                           (~log[k].allowed /\ log[k].remaining = 0)

\* a client that was denied its fourth back-to-back request and, after a
\* pause, is allowed again
C20_Witness ==
    LET log == ClientLog("c1")
    IN /\ Len(log) = max_requests + 2
       /\ \A k \in 1..(max_requests + 1) : log[k].t = log[1].t
       /\ ~log[max_requests + 1].allowed
       /\ log[max_requests + 2].allowed
       /\ log[max_requests + 2].t > log[1].t

\* C21: after a denial, a client that stays silent for the advertised
\* retry_after seconds (never more than window_seconds) has its next request
\* allowed, and after window_seconds of silence its bucket is full again.
C21_RecoversAfterRetryAfter ==
    \A c \in Clients :
        LET log == ClientLog(c)
        IN \A k \in 1..Len(log) :
              /\ ~log[k].allowed =>
                    /\ log[k].retry_after <= window_seconds
                    /\ (k < Len(log)
                          /\ log[k + 1].t - log[k].t >= log[k].retry_after) =>
                            log[k + 1].allowed
              /\ (k < Len(log) /\ log[k + 1].t - log[k].t >= window_seconds) =>
                    (log[k + 1].allowed
                       /\ log[k + 1].remaining = max_requests - 1)

\* a denied client waits exactly the advertised seconds and is served
C21_Witness ==
    LET log == ClientLog("c1")
    IN \E k \in 1..(Len(log) - 1) :
          /\ ~log[k].allowed
          /\ log[k + 1].t - log[k].t = log[k].retry_after
          /\ log[k + 1].allowed

\* the tokens of the client's bucket when its k-th request is decided: a new
\* bucket is full, an old one has gained max_requests tokens per window
\* since the client's previous request, up to max_requests
Refilled(log, k) ==
    IF k = 1 THEN max_requests * window_seconds
    ELSE Min(max_requests * window_seconds,
             log[k - 1].tokens + (log[k].t - log[k - 1].t) * max_requests)

\* C28: every bucket holds between 0 and max_requests tokens; an allowed
\* request removes exactly one token and a denied request none, so it
\* changes the bucket by the time-based refill only; denied requests never
\* postpone the moment the client is next allowed: after an allowed request
\* followed by denied ones, a request is allowed exactly when the refill
\* since the allowed one has reached a token.
C28_DeniedTakesNothing ==
    /\ \A c \in DOMAIN rl_buckets :
          /\ rl_buckets[c].tokens >= 0
          /\ rl_buckets[c].tokens <= max_requests * window_seconds
    /\ \A c \in Clients :
          LET log == ClientLog(c)
          IN /\ \A k \in 1..Len(log) :
                   /\ log[k].allowed = (Refilled(log, k) >= window_seconds)
                   /\ log[k].tokens =
                         Refilled(log, k)
                           - (IF log[k].allowed THEN window_seconds ELSE 0)
             /\ \A a \in 1..Len(log) : \A j \in (a + 1)..Len(log) :
                   (/\ log[a].allowed
                    /\ \A d \in (a + 1)..(j - 1) : ~log[d].allowed) =>
                       log[j].allowed =
                           (log[a].tokens + (log[j].t - log[a].t) * max_requests
                              >= window_seconds)

\* a drained client is denied after ten seconds and allowed after ten more
C28_Witness ==
    LET log == ClientLog("c1")
    IN \E k \in 2..(Len(log) - 1) :
          /\ log[k - 1].allowed /\ log[k - 1].tokens = 0
          /\ ~log[k].allowed /\ log[k].tokens > 0
          /\ log[k + 1].allowed
          /\ log[k + 1].t - log[k - 1].t = 20

\* the limiter after serving, from construction, the requests of a log
RECURSIVE LimiterAfter(_)
LimiterAfter(log) ==
    IF log = <<>>
    THEN [buckets |-> <<>>, last_cleanup |-> 0]
    ELSE LET prev == LimiterAfter(SubSeq(log, 1, Len(log) - 1))
             last == log[Len(log)]
             r    == is_allowed(prev.buckets, prev.last_cleanup,
                                last.client, last.t)
         IN [buckets |-> r.buckets, last_cleanup |-> r.last_cleanup]

\* what the k-th request of a log is told when only the requests of that
\* log were ever sent
ToldAlone(log, k) ==
    LET prev == LimiterAfter(SubSeq(log, 1, k - 1))
        r    == is_allowed(prev.buckets, prev.last_cleanup,
                           log[k].client, log[k].t)
    IN [allowed |-> r.allowed, remaining |-> r.remaining]

\* the answers of a client are those it would get with no other client
Independent(c) ==
    LET log == ClientLog(c)
    IN \A k \in 1..Len(log) :
          ToldAlone(log, k) =
              [allowed |-> log[k].allowed, remaining |-> log[k].remaining]

\* every client is answered as if it were the only one
RateLimitsIndependent == \A c \in Clients : Independent(c)

\* the client id as documented: the first entry of X-Forwarded-For when the
\* header is present, the connection host otherwise
DocumentedClientId(request) ==
    IF request.forwarded # NoHeader
    THEN Strip(request.forwarded[1])
    ELSE request.host

\* C22: rate limits are per client: the requests of other clients, and the
\* stale-bucket cleanup they trigger, never change whether a client's
\* request is allowed nor the remaining count it is told; the client id is
\* the first entry of X-Forwarded-For when that header is present and the
\* connection host otherwise.
C22_PerClient ==
    /\ RateLimitsIndependent
    /\ \A k \in 1..Len(rl_log) :
          rl_log[k].request.host # "None" =>
              rl_log[k].client = DocumentedClientId(rl_log[k].request)

(***************************************************************************)
(* Properties of the middleware stack (SpecMw).                            *)
(***************************************************************************)

\* C23: with the middleware installed by setup_security_middleware the
\* audit middleware is the outermost layer, so every request served has
\* exactly one audit REQUEST entry carrying its final status, the requests
\* answered 429 by the rate limiter and 413 by the size validation included.
C23_EveryRequestAudited ==
    mw_user_middleware # <<>> =>
        /\ mw_user_middleware[1] = "AuditLogMiddleware"
        /\ Len(mw_audit) = Len(mw_served)
        /\ \A k \in 1..Len(mw_served) :
              /\ mw_audit[k].kind = "REQUEST"
              /\ mw_audit[k].path = mw_served[k].path
              /\ mw_audit[k].status = mw_served[k].status

\* the weaker statement the stack does satisfy: the audit log holds exactly
\* the requests that reached the application
AuditedAreAnswered ==
    Len(mw_audit) = Cardinality({k \in 1..Len(mw_served) :
                                   mw_served[k].status = 200})

(***************************************************************************)
(* Further properties of the behavioural analyzer (SpecBehav).             *)
(***************************************************************************)

\* the address's transactions dated in the window of the given length that
\* ends at reference_time
InWindow(address, reference_time, length) ==
    SumCounts(history,
              {k \in Kinds : /\ history[k] > 0
                             /\ \/ Lower(k.from_address) = Lower(address)
                                \/ Lower(k.to_address) = Lower(address)
                             /\ reference_time - length <= k.timestamp
                             /\ k.timestamp <= reference_time})

\* all transactions of the address
TxsOf(address) ==
    SumCounts(history,
              {k \in Kinds : /\ history[k] > 0
                             /\ \/ Lower(k.from_address) = Lower(address)
                                \/ Lower(k.to_address) = Lower(address)})

\* C24: tx_count_1h, tx_count_24h and tx_count_7d count exactly the
\* address's transactions dated in the trailing window of 1 hour, 24 hours
\* and 7 days ending at reference_time; a transaction dated after
\* reference_time is in none of them, and tx_count_1h <= tx_count_24h <=
\* tx_count_7d <= the number of the address's transactions.
C24_TrailingWindows ==
    out.op = "analyze_velocity" =>
        LET v == out.result
        IN /\ v.tx_count_1h  = InWindow(out.address, out.reference_time, Hour)
           /\ v.tx_count_24h = InWindow(out.address, out.reference_time, Day)
           /\ v.tx_count_7d  = InWindow(out.address, out.reference_time, 7 * Day)
           /\ v.tx_count_1h <= v.tx_count_24h
           /\ v.tx_count_24h <= v.tx_count_7d
           /\ v.tx_count_7d <= TxsOf(out.address)

\* the part that holds: the counts are nested and bounded by the total
WindowsNested ==
    out.op = "analyze_velocity" =>
        /\ out.result.tx_count_1h <= out.result.tx_count_24h
        /\ out.result.tx_count_24h <= out.result.tx_count_7d
        /\ out.result.tx_count_7d <= TxsOf(out.address)

\* the transactions into the address sent by one (lower-cased) source
FundedBy(address, source) ==
    SumCounts(history,
              {k \in Kinds : /\ history[k] > 0
                             /\ FoldCase(k.to_address) = FoldCase(address)
                             /\ FoldCase(k.from_address) = source})

\* all transactions into the address
Incoming(address) ==
    SumCounts(history,
              {k \in Kinds : /\ history[k] > 0
                             /\ FoldCase(k.to_address) = FoldCase(address)})

\* the count of the largest funding source
TopFunding(address) ==
    SetMax({FundedBy(address, s) : s \in Senders(address)})

\* funding concentration above CONCENTRATION_THRESHOLD
Concentrated(address) ==
    1000 * TopFunding(address) > CONCENTRATION_THRESHOLD * Incoming(address)

Circular(address) == (Senders(address) \cap Recipients(address)) # {}

Indicators(address) ==
    (IF Concentrated(address) THEN 1 ELSE 0)
    + (IF Cardinality(Senders(address)) < MIN_FUNDING_DIVERSITY THEN 1 ELSE 0)
    + (IF Circular(address) THEN 2 ELSE 0)
    + (IF Senders(address) \cap known_mixer_addresses # {} THEN 2 ELSE 0)

\* min(1, 0.3 * concentration + 0.3 * circular + 0.4 * indicators / 6) in
\* thousandths, as the fraction num / den
FundingRisk(address) ==
    LET den == 6 * Incoming(address)
        num == 1800 * TopFunding(address)
               + ((IF Circular(address) THEN 1800 ELSE 0)
                    + 400 * Indicators(address)) * Incoming(address)
    IN [num |-> Min(num, 1000 * den), den |-> den]

\* C25: for an address with at least one incoming transaction,
\* wash_trading_indicators = (1 if funding concentration > 0.8) + (1 if
\* distinct funding sources < 3) + (2 if circular funding) + (2 if a funding
\* source is a known mixer), an integer in 0..6; funding_risk_score =
\* min(1, 0.3 * concentration + 0.3 * circular + 0.4 * indicators / 6), to
\* three decimals; and the report lists 'High funding concentration from
\* single source' exactly when the concentration indicator was counted.
C25_WashIndicators ==
    (out.op = "analyze_address" /\ Incoming(out.address) > 0) =>
        LET f == out.result.funding_pattern
            listed == \E i \in 1..Len(out.result.suspicious_patterns) :
                          out.result.suspicious_patterns[i] = "concentration"
        IN /\ f.wash_trading_indicators = Indicators(out.address)
           /\ f.wash_trading_indicators \in 0..6
           /\ f.funding_risk_score =
                  Round(FundingRisk(out.address).num, FundingRisk(out.address).den)
           /\ listed = Concentrated(out.address)

\* the first two parts alone
IndicatorsAndRisk ==
    (out.op = "analyze_address" /\ Incoming(out.address) > 0) =>
        LET f == out.result.funding_pattern
        IN /\ f.wash_trading_indicators = Indicators(out.address)
           /\ f.wash_trading_indicators \in 0..6
           /\ f.funding_risk_score =
                  Round(FundingRisk(out.address).num, FundingRisk(out.address).den)

(***************************************************************************)
(* Properties of the API-key authentication (SpecAuth).                    *)
(***************************************************************************)

\* what the documentation promises for one authenticated request
FailsClosed(i, result) ==
    IF i.path \in PUBLIC_ENDPOINTS \/ ~i.required
    THEN result.status = 200
    ELSE /\ (result.status = 200) =
               (i.api_key.given /\ i.api_key.key \in i.valid_keys)
         /\ Falsy(i.api_key) => result.status = 401
         /\ (~Falsy(i.api_key) /\ i.api_key.key \notin i.valid_keys) =>
               result.status = 403

\* C26: API-key authentication fails closed: when a key is required, a
\* request to a non-public endpoint is accepted only if its X-API-Key is in
\* the configured key set, a missing or empty key gets 401 and a key outside
\* the set 403; requests to the public endpoints, and all requests when keys
\* are not required, are accepted without a key.
C26_FailsClosed ==
    au_out.op # "none" => FailsClosed(au_in, au_out.result)

\* the same for the APIKeyAuth handler alone
HandlerFailsClosed ==
    au_out.op = "APIKeyAuth" => FailsClosed(au_in, au_out.result)

(***************************************************************************)
(* Properties of the Etherscan collector (SpecEth).                        *)
(***************************************************************************)

\* s is an initial part of t
IsPrefix(s, t) == Len(s) <= Len(t) /\ s = SubSeq(t, 1, Len(s))

QueryOrder == <<"get_balance", "get_transaction_count", "is_contract">>

\* C27: address_exists queries balance, then transaction count, then
\* contract code and stops at the first positive answer: no transaction-count
\* or contract query after a positive balance, no contract query after a
\* positive transaction count; it returns False only when all three are
\* negative, and for the same answers it equals verify_address(address).exists.
C27_ShortCircuit ==
    LET b == eth_answers.balance.value > 0
        t == eth_answers.tx_count.value > 0
        c == eth_answers.is_contract.value
        r == eth_result.address_exists
    IN /\ eth_pc \in {"ae_tx_count", "ae_is_contract", "ae_return_true"} =>
             /\ IsPrefix(eth_queries, QueryOrder)
             /\ b => eth_queries = <<"get_balance">>
             /\ t => Len(eth_queries) <= 2
       /\ r.done =>
             /\ IsPrefix(r.queries, QueryOrder)
             /\ b => r.queries = <<"get_balance">>
             /\ (~b /\ t) => r.queries = <<"get_balance", "get_transaction_count">>
             /\ (~b /\ ~t) => r.queries = QueryOrder
             /\ r.exists = (b \/ t \/ c)
             /\ eth_result.verify_address.done =>
                   r.exists = eth_result.verify_address.exists

\* both methods have answered for an address without balance and with
\* transactions; address_exists asked for the balance and the count only
C27_Witness ==
    /\ eth_result.address_exists.done
    /\ eth_result.verify_address.done
    /\ eth_answers.balance.value = 0
    /\ eth_answers.tx_count.value > 0
    /\ eth_result.address_exists.exists
    /\ eth_result.address_exists.queries = <<"get_balance", "get_transaction_count">>

\* the limiter that never deletes a bucket, after serving the requests of a
\* log: is_allowed with the cleanup not yet due
RECURSIVE KeptAfter(_)
KeptAfter(log) ==
    IF log = <<>> THEN <<>>
    ELSE LET last == log[Len(log)]
         IN is_allowed(KeptAfter(SubSeq(log, 1, Len(log) - 1)), last.t,
                       last.client, last.t).buckets

\* what the k-th request of a log is told by the limiter that never deletes
ToldWithoutCleanup(log, k) ==
    LET r == is_allowed(KeptAfter(SubSeq(log, 1, k - 1)), log[k].t,
                        log[k].client, log[k].t)
    IN [allowed |-> r.allowed, remaining |-> r.remaining]

\* C29: removing stale buckets is unobservable: the limiter that runs
\* _cleanup_stale_buckets and one that never deletes a bucket return the
\* same allow/deny decision and the same remaining count for every request
\* of every request sequence.
C29_CleanupUnobservable ==
    \A k \in 1..Len(rl_log) :
        ToldWithoutCleanup(rl_log, k) =
            [allowed |-> rl_log[k].allowed, remaining |-> rl_log[k].remaining]

\* a bucket that had been drained was deleted, and its client, back after
\* the deletion, was given a new bucket
C29_Witness ==
    \E k \in 1..Len(rl_log) : \E j \in (k + 1)..Len(rl_log) :
        /\ rl_log[k].client = rl_log[j].client
        /\ rl_log[k].tokens = 0
        /\ rl_log[j].created

(***************************************************************************)
(* The feature engineer against the behavioural analyzer (SpecFeat).       *)
(***************************************************************************)

\* the two funding implementations agree
FundingAgrees ==
    out.op = "compute_funding_pattern_features" =>
        LET f == analyze_funding_patterns(history, out.address)
        IN /\ out.result.funding_source_count = f.unique_funding_sources
           /\ out.result.funding_concentration = f.funding_concentration
           /\ (out.result.circular_funding_flag = 1) = f.circular_funding_detected

\* the two velocity implementations agree on the busiest hour
BusiestHourAgrees ==
    out.op = "compute_velocity_features" =>
        out.result.velocity_max_hourly =
            analyze_velocity(history, out.address, Now).max_tx_in_hour

\* C30: on the same history and address, compute_funding_pattern_features
\* and analyze_funding_patterns return the same source count, concentration
\* and circular flag, and compute_velocity_features and analyze_velocity
\* return the same busiest-hour count and the same burst verdict
\* (velocity_burst_count >= 1 iff burst_detected).
C30_ImplementationsAgree ==
    /\ FundingAgrees
    /\ BusiestHourAgrees
    /\ out.op = "compute_velocity_features" =>
          (out.result.velocity_burst_count >= 1) =
              analyze_velocity(history, out.address, Now).burst_detected

====
